---- MODULE Spec2Model ----
(***************************************************************************)
(* Guardian: the capture-to-analysis pipeline and its lifecycle            *)
(* controller.                                                             *)
(*                                                                         *)
(*   SpecWorker    one Analysis Worker (ScreenAnalyzer, AudioTranscriber   *)
(*                 or KeyboardAnalyzer) as Assistant drives it: started    *)
(*                 once, fed by add_to_queue, stopped with a bounded join. *)
(*   SpecWorkerLive SpecWorker with a worker thread that is kept scheduled. *)
(*   SpecSched     TaskScheduler with its two daily jobs and a clock.      *)
(*   SpecProducer  one Capture Producer (ScreenCapture or                  *)
(*                 KeyboardRecorder) with its cadence loop, pause and      *)
(*                 resume.                                                 *)
(*   SpecAssistant Assistant: setup, start and stop in their order, the    *)
(*                 power handlers, and the flags and queues of the         *)
(*                 components they act on.                                 *)
(*   SpecStream    one stream inside the Assistant: its Producer and the   *)
(*                 start and stop of the Worker that consumes it.          *)
(*   SpecApi       Assistant.start() and Assistant.stop() called again.    *)
(*   SpecWorkers   an Analysis Worker started again after stop().          *)
(*   SpecProducers a Capture Producer started again after stop().          *)
(*   SpecPower     PowerMonitor: registered listeners and the dispatch of  *)
(*                 window messages to them.                                *)
(*   SpecTriggers  TaskScheduler with registered callbacks that may raise, *)
(*                 and run_now.                                            *)
(*   SpecSummary   the daily-summary callback under the polling loop.      *)
(*   SpecCapture   a Capture Producer with failing captures, and the       *)
(*                 keystroke buffer followed through its flushes.          *)
(*   SpecArtifacts one stream's artifacts from capture to the aggregate    *)
(*                 file, over a midnight.                                  *)
(*   SpecShutdown  Assistant.stop() over components whose threads may not  *)
(*                 exit, with the fairness of the stopping thread.         *)
(*   SpecPrivacy   ScreenCapture with its deny-list and an active window   *)
(*                 that changes.                                           *)
(*   SpecBind      Assistant with a PowerMonitor whose window creation or  *)
(*                 registration may fail.                                  *)
(*   SpecOverlap   Assistant under Lock/Unlock and Sleep/Wake messages as  *)
(*                 the desktop sends them, each pair alternating.          *)
(*   SpecAfterStop a Capture Producer and what its threads do once stop()  *)
(*                 has returned.                                           *)
(*   SpecInitFail  ScreenCapture and ScreenAnalyzer with loop threads      *)
(*                 whose initialisation may raise.                         *)
(*   SpecPolling   TaskScheduler started and stopped again and again, with *)
(*                 its polling-loop threads and the jobs they run.         *)
(*                                                                         *)
(* Each specification moves its own variables and leaves the others at     *)
(* their constructed values.                                               *)
(***************************************************************************)
EXTENDS Integers, Sequences, FiniteSets

(***************************************************************************)
(* Bounds of the model.                                                    *)
(***************************************************************************)
\* artifacts handed to one Worker's add_to_queue in a run
MaxArtifacts == 3
\* the join bound of Worker.stop() in time units (analyzer.py:112 waits 60 s,
\* transcriber.py:71 and keyboard/analyzer.py:99 wait 30 s)
JoinBound == 2
\* artifacts captured, over all streams, in a run of the Assistant
MaxCaptured == 1
\* calls of Assistant.start() in a run
MaxStarts == 2
\* calls of Assistant.stop() made when stop() has already returned
MaxStopCalls == 1
\* worker threads one Worker object starts in a run
MaxThreads == 2
\* cadence-loop threads one Producer object may ever create
MaxLoops == 2
\* artifacts one Producer hands to its callback in a run
MaxCaptures == 3
\* keystrokes typed in a run
MaxKeys == 2
\* poll ticks in a day and days in a run of the scheduler
TicksPerDay == 4
MaxDays == 3
\* the longest one analysis call lasts, in the same units: every call
\* completes well within the join bound
MaxCallTime == 1
\* register_callback calls explored
MaxRegistrations == 2
\* window messages explored
MaxDispatches == 2
\* run_now calls explored
MaxRunNow == 1
\* daily-summary triggers explored
MaxSummaries == 3
\* artifacts captured in a run of one stream with its Worker
MaxSegments == 3
\* the last calendar day explored, the first being day 0
LastDay == 1
\* characters of the longest window title explored
MaxTitle == 2
\* polling-loop threads one TaskScheduler starts in a run
MaxPollingLoops == 2
\* times the time of day of a trigger comes
MaxDue == 2

Kinds == {"audio", "screen", "keyboard"}

VARIABLES
    wk_kind,        \* which Worker class this is
    wk_backup,      \* config google_drive.backup.screenshots
    wk_is_running,  \* self._is_running
    wk_queue,       \* self._queue, a queue.Queue (FIFO)
    wk_thread,      \* position of self._worker_thread in _worker
    wk_item,        \* the loop's local screenshot_path / audio_path / log_path
    wk_dur,         \* time units the running analysis call still takes
    wk_file,        \* the per-day aggregate file: entries in append order
    wk_disk,        \* artifact files present on disk
    wk_analysed,    \* artifacts handed to the analysis call, in call order
    wk_failed,      \* artifacts whose iteration raised or whose save failed
    wk_done,        \* artifacts whose loop iteration has finished
    wk_next,        \* id of the next artifact a Producer hands over
    wk_stop,        \* position of the caller inside stop()
    wk_joinLeft,    \* time units left of the join in stop()
    wk_stopSnap,    \* queue contents when stop() was last called
    wk_stopAlive,   \* whether the worker thread was alive at that call
    wk_stopAt,      \* wk_next when stop() was first called (0: never)
    wk_timedOut,    \* whether the last join ended by its timeout
    wk_retAt,       \* wk_next when a stop() first returned without timeout
    wk_exitAt,      \* wk_next when the worker thread left its loop (0: not yet)
    sch_summary_time, \* TaskScheduler.summary_time, as a tick of the day
    sch_is_running, \* TaskScheduler._is_running
    sch_thread,     \* position of TaskScheduler._thread in _run_scheduler
    sch_jobs,       \* the jobs of the schedule module, in registration order
    sch_now,        \* the clock, in poll ticks since midnight of day 0
    sch_fired,      \* callback invocations so far, per trigger and day
    sch_startAt,    \* the clock when start() registered the jobs (-1: never)
    sch_stopped,    \* stop() has been called
    pr_kind,        \* which Producer class this is: ScreenCapture or KeyboardRecorder
    pr_running,     \* ScreenCapture.is_running / KeyboardRecorder.running
    pr_paused,      \* ScreenCapture.is_paused / KeyboardRecorder.paused
    pr_pc,          \* position of each cadence-loop thread; index 0 is the
                    \* caller of stop()
    pr_listeners,   \* pynput listeners started and not stopped
    pr_buffer,      \* KeyboardRecorder.current_buffer
    pr_key,         \* the keystroke _on_press is handling (0: none)
    pr_nextKey,     \* id of the next keystroke
    pr_seg,         \* save_buffer's local content, per thread running it
    pr_log,         \* keylog.txt of the day: keystrokes in append order
    pr_enq,         \* invocations of on_capture_ready / on_log_ready so far
    pr_inPause,     \* such invocations per thread since pause() last returned
    pr_keysInPause, \* keystrokes put in the buffer since pause() last returned
    pr_stopped,     \* stop() has been called
    pr_again,       \* start() has been called on a running Producer
    as_enabled,     \* config: the streams whose enabled flag is set
    as_pause_on_lock, \* config privacy.pause_on_lock
    as_pc,          \* where the main thread is: new, starting, running,
                    \* stopping, stopped
    as_i,           \* the next step of Assistant.start() / stop()
    as_prod,        \* per stream, the Capture Producer: built, running, paused
    as_work,        \* per stream, the Analysis Worker: built, running, alive
    as_queue,       \* per stream, the Worker's queue
    as_processed,   \* per stream, the artifacts the Worker has dequeued
    as_sched,       \* TaskScheduler._is_running
    as_pm,          \* PowerMonitor._is_running
    as_startLog,    \* the components Assistant.start() has started, in order
    as_ev,          \* the event the power-monitor thread is dispatching
    as_evI,         \* the next Producer its handler turns to
    as_last,        \* the last event whose handler has returned
    as_touched,     \* <<stream, method>> for every Producer method called
    as_next,        \* id of the next artifact
    as_pausedWith,  \* per stream, the queue contents when pause() was last called
    as_stopLog,     \* the components Assistant.stop() has stopped, in order
    as_lockIgnored, \* a lock or unlock message was dropped: pause_on_lock is off
    st_worker,      \* one stream's Worker: none, started, stopCalled
    st_late,        \* an artifact was enqueued with the Worker not started or stopped
    ap_setups,      \* number of setup() runs: component sets constructed
    ap_loops,       \* per stream, Producer objects that are running
    ap_workers,     \* per stream, Worker objects that are running
    ap_raised,      \* a call of stop() has raised
    ap_snap,        \* the component states when stop() was called while stopped
    ap_stopCalls,   \* calls of stop() while stopped
    rw_is_running,  \* Worker._is_running
    rw_pc,          \* position of every thread the Worker has started
    rw_thread,      \* Worker._worker_thread: the thread started last (0: none)
    rw_queue,       \* artifacts in the Worker's queue
    rw_added,       \* artifacts handed to add_to_queue so far
    rw_stop,        \* position of the caller inside stop()
    pm_callbacks,   \* PowerMonitor._callbacks: event -> the callback stored for it
    pm_registered,  \* per event, the listeners passed to register_callback, in call order
    pm_pause_on_lock, \* PowerMonitor.pause_on_lock
    pm_is_running,  \* PowerMonitor._is_running
    pm_thread,      \* the _message_loop thread: none, loop, exited, dead
    pm_event,       \* the event of the last message handled by _window_proc
    pm_invoked,     \* the listeners that message invoked, in order
    pm_expected,    \* the listeners registered for it when it was handled
    pm_dispatched,  \* messages handled so far
    pm_raises,      \* listener invocations that raised
    pm_logged,      \* listener exceptions logged by _trigger
    pm_afterRaise,  \* a listener was invoked after an earlier one had raised
    tg_callbacks,   \* TaskScheduler._callbacks: the names a callback is registered under
    tg_raised,      \* per trigger, the days on which its callback raised
    tg_logged,      \* per trigger, the days on which its function logged an exception
    tg_calls,       \* run_now calls made so far
    tg_task,        \* the task name of the last run_now call
    tg_manual,      \* per trigger, the callback invocations made by run_now
    sm_email,       \* Assistant.email_sender is built (email enabled)
    sm_drive,       \* Assistant.drive_manager is built (drive enabled)
    sm_triggers,    \* daily-summary triggers handled so far
    sm_generated,   \* calls of summary_generator.generate()
    sm_sent,        \* summaries handed to email_sender.send_daily_summary
    sm_uploaded,    \* summaries handed to drive_manager.upload_summary
    sm_raised,      \* exceptions raised inside _generate_daily_summary
    sm_logged,      \* exceptions logged by _generate_daily_summary
    sm_alerts,      \* calls of email_sender.send_error_alert
    sm_escaped,     \* an exception has left _generate_daily_summary
    cf_failed,      \* the threads in which a capture, a write or the callback has raised
    cf_logged,      \* the threads that have logged such an exception
    cf_recovered,   \* the threads that have handed over an artifact after a failure
    cf_atStop,      \* KeyboardRecorder.current_buffer when stop() was called
    cf_taken,       \* the keystrokes taken out of the buffer by save_buffer, in order
    ar_kind,        \* the stream: audio, screen or keyboard
    ar_day,         \* the calendar day, counted from the start of the process
    ar_next,        \* id of the next artifact (chunk, screenshot, keystroke segment)
    ar_dayKey,      \* per artifact, the day it was captured on
    ar_files,       \* content of each artifact file: the ids written to it, in order
    ar_queue,       \* the Worker's queue: path, artifact id and the file's content at enqueue
    ar_item,        \* the artifact the Worker has dequeued and read, or none
    ar_reads,       \* per dequeue, the content at enqueue and the content read
    ar_results,     \* per day, the aggregate file: ids of the artifacts entered
    sd_phase,       \* Assistant: built, running, stopping or returned (from stop())
    sd_enabled,     \* the streams the configuration enables
    sd_thread,      \* per StopOrder position: none, live, blocked, exited or left
    sd_flag,        \* per StopOrder position: the component's running flag
    sd_at,          \* the StopOrder position stop() has reached
    sd_wait,        \* stop() is at a component's call, or inside its join
    sd_timer,       \* time left of the join in progress
    sd_called,      \* positions whose stop() has been called
    sd_abandoned,   \* positions whose join timed out on a live thread
    pv_excluded_apps,\* privacy.excluded_apps of the configuration
    pv_excluded_windows,\* privacy.excluded_windows of the configuration
    pv_title,       \* the title of the window that is active now
    pv_startDenied, \* the title that was active at start() was on the deny-list
    pv_seenDenied,  \* per loop: the title its check read in this pass is on the deny-list
    pv_skipped,     \* a pass that was not paused was skipped for the deny-list
    pv_leak,        \* a screenshot was handed over in a pass whose title was on the deny-list
    bn_bind,        \* the notification channel: none, pending, bound or failed
    bn_thread,      \* the _message_loop thread: none, loop or exited
    bn_logged,      \* the failure of _message_loop has been logged
    ov_locked,      \* the session is locked: a Lock message has arrived and no Unlock since
    ov_asleep,      \* the machine is suspended: a Sleep message has arrived and no Wake since
    ov_lockHandled, \* _on_lock has returned and no Unlock message has arrived since
    ov_sleepHandled, \* _on_sleep has returned and no Wake message has arrived since
    af_returned,    \* the Producer's stop() has been called and has returned
    af_enq,         \* the callback invocations counted when stop() returned
    af_log,         \* the length of the day log when stop() returned
    if_failed,      \* the components whose loop thread ended in its own initialisation
    if_refused,     \* the components whose start() returned early with no loop thread alive
    pl_is_running,  \* TaskScheduler._is_running
    pl_jobs,        \* per trigger, the jobs registered with the schedule module
    pl_due,         \* the triggers whose job is due to run
    pl_dues,        \* the times a trigger's time of day has come
    pl_pc,          \* per polling-loop thread: none, test, pending, run, callback, sleep or exited
    pl_todo,        \* per thread: the due jobs its run_pending() has still to run
    pl_thread,      \* self._thread: the thread started last, or 0
    pl_stop,        \* stop() is idle or inside its join
    pl_returned,    \* stop() has returned and start() has not been called since
    pl_timedOut,    \* a join of stop() has timed out on a live thread
    pl_late         \* a callback was started while pl_returned

wkVars == <<wk_kind, wk_backup, wk_is_running, wk_queue, wk_thread, wk_item,
            wk_dur, wk_file, wk_disk, wk_analysed, wk_failed, wk_done, wk_next,
            wk_stop, wk_joinLeft, wk_stopSnap, wk_stopAlive, wk_stopAt,
            wk_timedOut, wk_retAt, wk_exitAt>>

schVars == <<sch_summary_time, sch_is_running, sch_thread, sch_jobs, sch_now,
             sch_fired, sch_startAt, sch_stopped>>

prVars == <<pr_kind, pr_running, pr_paused, pr_pc, pr_listeners, pr_buffer,
            pr_key, pr_nextKey, pr_seg, pr_log, pr_enq, pr_inPause,
            pr_keysInPause, pr_stopped, pr_again>>

asVars == <<as_enabled, as_pause_on_lock, as_pc, as_i, as_prod, as_work,
            as_queue, as_processed, as_sched, as_pm, as_startLog, as_ev,
            as_evI, as_last, as_touched, as_next, as_pausedWith, as_stopLog,
            as_lockIgnored>>

stVars == <<st_worker, st_late>>

apVars == <<ap_setups, ap_loops, ap_workers, ap_raised, ap_snap, ap_stopCalls>>

rwVars == <<rw_is_running, rw_pc, rw_thread, rw_queue, rw_added, rw_stop>>

pmVars == <<pm_callbacks, pm_registered, pm_pause_on_lock, pm_is_running,
            pm_thread, pm_event, pm_invoked, pm_expected, pm_dispatched,
            pm_raises, pm_logged, pm_afterRaise>>

tgVars == <<tg_callbacks, tg_raised, tg_logged, tg_calls, tg_task, tg_manual>>

smVars == <<sm_email, sm_drive, sm_triggers, sm_generated, sm_sent, sm_uploaded,
            sm_raised, sm_logged, sm_alerts, sm_escaped>>

cfVars == <<cf_failed, cf_logged, cf_recovered, cf_atStop, cf_taken>>

arVars == <<ar_kind, ar_day, ar_next, ar_dayKey, ar_files, ar_queue, ar_item,
            ar_reads, ar_results>>

sdVars == <<sd_phase, sd_enabled, sd_thread, sd_flag, sd_at, sd_wait, sd_timer,
            sd_called, sd_abandoned>>

pvVars == <<pv_excluded_apps, pv_excluded_windows, pv_title, pv_startDenied,
            pv_seenDenied, pv_skipped, pv_leak>>

bnVars == <<bn_bind, bn_thread, bn_logged>>

ovVars == <<ov_locked, ov_asleep, ov_lockHandled, ov_sleepHandled>>

afVars == <<af_returned, af_enq, af_log>>

ifVars == <<if_failed, if_refused>>

plVars == <<pl_is_running, pl_jobs, pl_due, pl_dues, pl_pc, pl_todo, pl_thread,
            pl_stop, pl_returned, pl_timedOut, pl_late>>

vars == <<wkVars, schVars, prVars, asVars, stVars, apVars, rwVars, pmVars,
          tgVars, smVars, cfVars, arVars, sdVars, pvVars, bnVars, ovVars, afVars, ifVars, plVars>>

\* what a specification of one component leaves alone
notWk == <<schVars, prVars, asVars, stVars, apVars, rwVars, pmVars, tgVars, smVars, cfVars, arVars, sdVars, pvVars, bnVars, ovVars, afVars, ifVars, plVars>>
notSch == <<wkVars, prVars, asVars, stVars, apVars, rwVars, pmVars, tgVars, smVars, cfVars, arVars, sdVars, pvVars, bnVars, ovVars, afVars, ifVars, plVars>>
notPr == <<wkVars, schVars, asVars, stVars, apVars, rwVars, pmVars, tgVars, smVars, cfVars, arVars, sdVars, pvVars, bnVars, ovVars, afVars, ifVars, plVars>>
notAs == <<wkVars, schVars, prVars, stVars, apVars, rwVars, pmVars, tgVars, smVars, cfVars, arVars, sdVars, pvVars, bnVars, ovVars, afVars, ifVars, plVars>>
notSt == <<wkVars, schVars, asVars, apVars, rwVars, pmVars, tgVars, smVars, cfVars, arVars, sdVars, pvVars, bnVars, ovVars, afVars, ifVars, plVars>>
notAp == <<wkVars, schVars, prVars, stVars, rwVars, pmVars, tgVars, smVars, cfVars, arVars, sdVars, pvVars, bnVars, ovVars, afVars, ifVars, plVars>>
notRw == <<wkVars, schVars, prVars, asVars, stVars, apVars, pmVars, tgVars, smVars, cfVars, arVars, sdVars, pvVars, bnVars, ovVars, afVars, ifVars, plVars>>
notPm == <<wkVars, schVars, prVars, asVars, stVars, apVars, rwVars, tgVars, smVars, cfVars, arVars, sdVars, pvVars, bnVars, ovVars, afVars, ifVars, plVars>>
notTg == <<wkVars, prVars, asVars, stVars, apVars, rwVars, pmVars, smVars, cfVars, arVars, sdVars, pvVars, bnVars, ovVars, afVars, ifVars, plVars>>
notSm == <<wkVars, prVars, asVars, stVars, apVars, rwVars, pmVars, tgVars, cfVars, arVars, sdVars, pvVars, bnVars, ovVars, afVars, ifVars, plVars>>
notCf == <<wkVars, schVars, asVars, stVars, apVars, rwVars, pmVars, tgVars, smVars, arVars, sdVars, pvVars, bnVars, ovVars, afVars, ifVars, plVars>>
notAr == <<wkVars, schVars, prVars, asVars, stVars, apVars, rwVars, pmVars, tgVars, smVars, cfVars, sdVars, pvVars, bnVars, ovVars, afVars, ifVars, plVars>>
notSd == <<wkVars, schVars, prVars, asVars, stVars, apVars, rwVars, pmVars, tgVars, smVars, cfVars, arVars, pvVars, bnVars, ovVars, afVars, ifVars, plVars>>
notPv == <<wkVars, schVars, asVars, stVars, apVars, rwVars, pmVars, tgVars, smVars, cfVars, arVars, sdVars, bnVars, ovVars, afVars, ifVars, plVars>>
notBn == <<wkVars, schVars, prVars, stVars, apVars, rwVars, pmVars, tgVars, smVars, cfVars, arVars, sdVars, pvVars, ovVars, afVars, ifVars, plVars>>
notOv == <<wkVars, schVars, prVars, stVars, apVars, rwVars, pmVars, tgVars, smVars, cfVars, arVars, sdVars, pvVars, bnVars, afVars, ifVars, plVars>>
notAf == <<wkVars, schVars, asVars, stVars, apVars, rwVars, pmVars, tgVars, smVars, cfVars, arVars, sdVars, pvVars, bnVars, ovVars, ifVars, plVars>>
notIf == <<schVars, asVars, stVars, apVars, rwVars, pmVars, tgVars, smVars, cfVars, arVars, sdVars, pvVars, bnVars, ovVars, afVars, plVars>>
notPl == <<wkVars, schVars, prVars, asVars, stVars, apVars, rwVars, pmVars, tgVars, smVars, cfVars, arVars, sdVars, pvVars, bnVars, ovVars, afVars, ifVars>>

Range(s) == {s[i] : i \in 1..Len(s)}

(***************************************************************************)
(* Analysis Worker                                                         *)
(***************************************************************************)
\* __init__: an empty queue, not running, no thread
WorkerInit ==
    /\ wk_kind \in Kinds
    /\ wk_backup \in (IF wk_kind = "screen" THEN BOOLEAN ELSE {FALSE})
    /\ wk_is_running = FALSE
    /\ wk_queue = <<>>
    /\ wk_thread = "none"
    /\ wk_item = 0
    /\ wk_dur = 0
    /\ wk_file = <<>>
    /\ wk_disk = {}
    /\ wk_analysed = <<>>
    /\ wk_failed = {}
    /\ wk_done = {}
    /\ wk_next = 1
    /\ wk_stop = "idle"
    /\ wk_joinLeft = 0
    /\ wk_stopSnap = {}
    /\ wk_stopAlive = FALSE
    /\ wk_stopAt = 0
    /\ wk_timedOut = FALSE
    /\ wk_retAt = 0
    /\ wk_exitAt = 0

\* QueuePut with the artifact put at the head instead of the tail
QueuePutAtHead(q, x) == <<x>> \o q

\* queue.Queue.put (analyzer.py:117): the artifact joins the tail
QueuePut(q, x) == Append(q, x)

\* queue.Queue.get (analyzer.py:51): the artifact at the head leaves
QueueGet(q) == [item |-> Head(q), rest |-> Tail(q)]

\* LoopCond without the drain: the loop ends as soon as the flag is cleared
LoopCondNoDrain == wk_is_running

\* the loop condition of _worker (analyzer.py:49, transcriber.py:35,
\* keyboard/analyzer.py:40)
LoopCond == wk_is_running \/ wk_queue # <<>>

\* the worker thread is inside _worker
WorkerAlive == wk_thread \notin {"none", "exited"}

\* start() (analyzer.py:98-106); Assistant.start() calls it once, before the
\* stream's Producer, and never after stop() (main.py:260-271)
Worker_start ==
    /\ wk_stopAt = 0
    /\ IF wk_is_running
       THEN UNCHANGED <<wk_is_running, wk_thread>>
       ELSE wk_is_running' = TRUE /\ wk_thread' = "init"
    /\ UNCHANGED <<wk_kind, wk_backup, wk_queue, wk_item, wk_dur, wk_file,
                   wk_disk, wk_analysed, wk_failed, wk_done, wk_next, wk_stop,
                   wk_joinLeft, wk_stopSnap, wk_stopAlive, wk_stopAt,
                   wk_timedOut, wk_retAt, wk_exitAt>>

\* add_to_queue(path) (analyzer.py:115-118), called by the Producer's callback
\* with a file the Producer has just written (main.py:164-185)
Worker_add_to_queue ==
    /\ wk_thread # "none"
    /\ wk_next <= MaxArtifacts
    /\ wk_queue' = QueuePut(wk_queue, wk_next)
    /\ wk_disk' = wk_disk \cup {wk_next}
    /\ wk_next' = wk_next + 1
    /\ UNCHANGED <<wk_kind, wk_backup, wk_is_running, wk_thread, wk_item,
                   wk_dur, wk_file, wk_analysed, wk_failed, wk_done, wk_stop,
                   wk_joinLeft, wk_stopSnap, wk_stopAlive, wk_stopAt,
                   wk_timedOut, wk_retAt, wk_exitAt>>

\* _worker: client = get_openrouter_client() (analyzer.py:47); the API key it
\* needs was validated when the configuration was loaded (config_manager.py:57-75)
WorkerClient ==
    /\ wk_thread = "init"
    /\ wk_thread' = "check"
    /\ UNCHANGED <<wk_kind, wk_backup, wk_is_running, wk_queue, wk_item,
                   wk_dur, wk_file, wk_disk, wk_analysed, wk_failed, wk_done,
                   wk_next, wk_stop, wk_joinLeft, wk_stopSnap, wk_stopAlive,
                   wk_stopAt, wk_timedOut, wk_retAt, wk_exitAt>>

\* _worker: the while test (analyzer.py:49); the thread ends when it is false
WorkerLoop ==
    /\ wk_thread = "check"
    /\ IF LoopCond
       THEN wk_thread' = "get" /\ UNCHANGED wk_exitAt
       ELSE wk_thread' = "exited" /\ wk_exitAt' = wk_next
    /\ UNCHANGED <<wk_kind, wk_backup, wk_is_running, wk_queue, wk_item,
                   wk_dur, wk_file, wk_disk, wk_analysed, wk_failed, wk_done,
                   wk_next, wk_stop, wk_joinLeft, wk_stopSnap, wk_stopAlive,
                   wk_stopAt, wk_timedOut, wk_retAt>>

\* _worker: self._queue.get(timeout=1.0) returns an artifact (analyzer.py:51);
\* screen and audio go straight into the analysis call (analyzer.py:54,
\* transcriber.py:39), keyboard reads the log first (keyboard/analyzer.py:45)
WorkerGet ==
    /\ wk_thread = "get"
    /\ wk_queue # <<>>
    /\ wk_item' = QueueGet(wk_queue).item
    /\ wk_queue' = QueueGet(wk_queue).rest
    /\ IF wk_kind = "keyboard"
       THEN /\ wk_thread' = "read"
            /\ UNCHANGED <<wk_dur, wk_analysed>>
       ELSE /\ wk_thread' = "analyze"
            /\ wk_analysed' = Append(wk_analysed, QueueGet(wk_queue).item)
            /\ wk_dur' \in 1..MaxCallTime
    /\ UNCHANGED <<wk_kind, wk_backup, wk_is_running, wk_file, wk_disk,
                   wk_failed, wk_done, wk_next, wk_stop, wk_joinLeft,
                   wk_stopSnap, wk_stopAlive, wk_stopAt, wk_timedOut, wk_retAt,
                   wk_exitAt>>

\* WorkerGetEmpty for a get() without timeout: on an empty queue the thread
\* stays blocked in the get
WorkerGetEmptyNoTimeout ==
    /\ wk_thread = "get"
    /\ wk_queue = <<>>
    /\ UNCHANGED wkVars

\* _worker: the get timed out on an empty queue: queue.Empty, continue
\* (analyzer.py:67-68)
WorkerGetEmpty ==
    /\ wk_thread = "get"
    /\ wk_queue = <<>>
    /\ wk_thread' = "check"
    /\ UNCHANGED <<wk_kind, wk_backup, wk_is_running, wk_queue, wk_item,
                   wk_dur, wk_file, wk_disk, wk_analysed, wk_failed, wk_done,
                   wk_next, wk_stop, wk_joinLeft, wk_stopSnap, wk_stopAlive,
                   wk_stopAt, wk_timedOut, wk_retAt, wk_exitAt>>

\* what KeyboardRecorder.save_buffer writes always carries its header
\* (recorder.py:92-96), so content.strip() is never empty for a log it enqueued
BlankLog(id) == FALSE

\* KeyboardAnalyzer._worker: content = log_path.read_text() and the blank test
\* (keyboard/analyzer.py:44-49); a read error goes to the except clause
\* (keyboard/analyzer.py:63-64)
WorkerRead ==
    /\ wk_thread = "read"
    /\ \E ok \in BOOLEAN :
         IF ~ok
         THEN /\ wk_failed' = wk_failed \cup {wk_item}
              /\ wk_done' = wk_done \cup {wk_item}
              /\ wk_thread' = "check"
              /\ UNCHANGED <<wk_analysed, wk_dur>>
         ELSE IF BlankLog(wk_item)
         THEN /\ wk_done' = wk_done \cup {wk_item}
              /\ wk_thread' = "check"
              /\ UNCHANGED <<wk_failed, wk_analysed, wk_dur>>
         ELSE /\ wk_thread' = "analyze"
              /\ wk_analysed' = Append(wk_analysed, wk_item)
              /\ wk_dur' \in 1..MaxCallTime
              /\ UNCHANGED <<wk_failed, wk_done>>
    /\ UNCHANGED <<wk_kind, wk_backup, wk_is_running, wk_queue, wk_item,
                   wk_file, wk_disk, wk_next, wk_stop, wk_joinLeft,
                   wk_stopSnap, wk_stopAlive, wk_stopAt, wk_timedOut, wk_retAt,
                   wk_exitAt>>

\* time passes while the analysis call is blocked on the service; a join in
\* progress in stop() uses up its timeout meanwhile
WorkerTick ==
    /\ wk_thread = "analyze"
    /\ wk_dur > 0
    /\ wk_dur' = wk_dur - 1
    /\ wk_joinLeft' = IF wk_stop = "joining" /\ wk_joinLeft > 0
                      THEN wk_joinLeft - 1 ELSE wk_joinLeft
    /\ UNCHANGED <<wk_kind, wk_backup, wk_is_running, wk_queue, wk_thread,
                   wk_item, wk_file, wk_disk, wk_analysed, wk_failed, wk_done,
                   wk_next, wk_stop, wk_stopSnap, wk_stopAlive, wk_stopAt,
                   wk_timedOut, wk_retAt, wk_exitAt>>

\* _worker: the analysis call returns its text (analyzer.py:54-58,
\* transcriber.py:39, keyboard/analyzer.py:52-56); analyze_image and
\* transcribe_audio need the file to exist (openrouter_client.py:258-259)
WorkerAnalysisReturns ==
    /\ wk_thread = "analyze"
    /\ wk_dur = 0
    /\ wk_item \in wk_disk
    /\ wk_thread' = "save"
    /\ UNCHANGED <<wk_kind, wk_backup, wk_is_running, wk_queue, wk_item,
                   wk_dur, wk_file, wk_disk, wk_analysed, wk_failed, wk_done,
                   wk_next, wk_stop, wk_joinLeft, wk_stopSnap, wk_stopAlive,
                   wk_stopAt, wk_timedOut, wk_retAt, wk_exitAt>>

\* WorkerAnalysisRaises without the except clause: the exception ends the thread
WorkerAnalysisRaisesUncaught ==
    /\ wk_thread = "analyze"
    /\ wk_dur = 0
    /\ wk_failed' = wk_failed \cup {wk_item}
    /\ wk_done' = wk_done \cup {wk_item}
    /\ wk_thread' = "exited"
    /\ wk_exitAt' = wk_next
    /\ UNCHANGED <<wk_kind, wk_backup, wk_is_running, wk_queue, wk_item,
                   wk_dur, wk_file, wk_disk, wk_analysed, wk_next, wk_stop,
                   wk_joinLeft, wk_stopSnap, wk_stopAlive, wk_stopAt,
                   wk_timedOut, wk_retAt>>

\* WorkerAnalysisRaises with a retry: the failed artifact is put back
WorkerAnalysisRaisesRequeue ==
    /\ wk_thread = "analyze"
    /\ wk_dur = 0
    /\ wk_failed' = wk_failed \cup {wk_item}
    /\ wk_done' = wk_done \cup {wk_item}
    /\ wk_queue' = QueuePut(wk_queue, wk_item)
    /\ wk_thread' = "check"
    /\ UNCHANGED <<wk_kind, wk_backup, wk_is_running, wk_item, wk_dur,
                   wk_file, wk_disk, wk_analysed, wk_next, wk_stop,
                   wk_joinLeft, wk_stopSnap, wk_stopAlive, wk_stopAt,
                   wk_timedOut, wk_retAt, wk_exitAt>>

\* _worker: the analysis call raises; except Exception logs it and the loop
\* goes on, the artifact is not put back (analyzer.py:69-70)
WorkerAnalysisRaises ==
    /\ wk_thread = "analyze"
    /\ wk_dur = 0
    /\ wk_failed' = wk_failed \cup {wk_item}
    /\ wk_done' = wk_done \cup {wk_item}
    /\ wk_thread' = "check"
    /\ UNCHANGED <<wk_kind, wk_backup, wk_is_running, wk_queue, wk_item,
                   wk_dur, wk_file, wk_disk, wk_analysed, wk_next, wk_stop,
                   wk_joinLeft, wk_stopSnap, wk_stopAlive, wk_stopAt,
                   wk_timedOut, wk_retAt, wk_exitAt>>

\* _save_analysis / _save_transcription: append the entry to the day's file; an
\* I/O error is logged inside and not raised (analyzer.py:72-86,
\* transcriber.py:49-59, keyboard/analyzer.py:68-83); then task_done, or for a
\* screenshot the delete step (analyzer.py:63)
WorkerSave ==
    /\ wk_thread = "save"
    /\ \E ok \in BOOLEAN :
         IF ok
         THEN wk_file' = Append(wk_file, wk_item) /\ UNCHANGED wk_failed
         ELSE wk_failed' = wk_failed \cup {wk_item} /\ UNCHANGED wk_file
    /\ IF wk_kind = "screen"
       THEN wk_thread' = "delete" /\ UNCHANGED wk_done
       ELSE wk_thread' = "check" /\ wk_done' = wk_done \cup {wk_item}
    /\ UNCHANGED <<wk_kind, wk_backup, wk_is_running, wk_queue, wk_item,
                   wk_dur, wk_disk, wk_analysed, wk_next, wk_stop, wk_joinLeft,
                   wk_stopSnap, wk_stopAlive, wk_stopAt, wk_timedOut, wk_retAt,
                   wk_exitAt>>

\* ScreenAnalyzer._delete_screenshot: unlink unless screenshots are backed up
\* (analyzer.py:88-96), then task_done (analyzer.py:65)
WorkerDelete ==
    /\ wk_thread = "delete"
    /\ wk_disk' = IF wk_backup THEN wk_disk ELSE wk_disk \ {wk_item}
    /\ wk_done' = wk_done \cup {wk_item}
    /\ wk_thread' = "check"
    /\ UNCHANGED <<wk_kind, wk_backup, wk_is_running, wk_queue, wk_item,
                   wk_dur, wk_file, wk_analysed, wk_failed, wk_next, wk_stop,
                   wk_joinLeft, wk_stopSnap, wk_stopAlive, wk_stopAt,
                   wk_timedOut, wk_retAt, wk_exitAt>>

\* Worker_stop without the join: the flag is cleared and stop() returns
Worker_stopNoJoin ==
    /\ wk_stop = "idle"
    /\ wk_is_running' = FALSE
    /\ wk_stopSnap' = Range(wk_queue)
    /\ wk_stopAlive' = WorkerAlive
    /\ wk_stopAt' = IF wk_stopAt = 0 THEN wk_next ELSE wk_stopAt
    /\ wk_stop' = "idle"
    /\ wk_timedOut' = FALSE
    /\ wk_retAt' = IF wk_retAt = 0 THEN wk_next ELSE wk_retAt
    /\ UNCHANGED <<wk_kind, wk_backup, wk_queue, wk_thread, wk_item, wk_dur,
                   wk_file, wk_disk, wk_analysed, wk_failed, wk_done, wk_next,
                   wk_joinLeft, wk_exitAt>>

\* stop() up to the join (analyzer.py:108-112): clear the flag; without a
\* _worker_thread attribute there is nothing to join and stop() returns
Worker_stop ==
    /\ wk_stop = "idle"
    /\ wk_is_running' = FALSE
    /\ wk_stopSnap' = Range(wk_queue)
    /\ wk_stopAlive' = WorkerAlive
    /\ wk_stopAt' = IF wk_stopAt = 0 THEN wk_next ELSE wk_stopAt
    /\ IF wk_thread = "none"
       THEN /\ wk_stop' = "idle"
            /\ wk_timedOut' = FALSE
            /\ wk_retAt' = IF wk_retAt = 0 THEN wk_next ELSE wk_retAt
            /\ UNCHANGED wk_joinLeft
       ELSE /\ wk_stop' = "joining"
            /\ wk_joinLeft' = JoinBound
            /\ UNCHANGED <<wk_timedOut, wk_retAt>>
    /\ UNCHANGED <<wk_kind, wk_backup, wk_queue, wk_thread, wk_item, wk_dur,
                   wk_file, wk_disk, wk_analysed, wk_failed, wk_done, wk_next,
                   wk_exitAt>>

\* stop(): self._worker_thread.join(timeout=...) returns, because the thread
\* ended or because the timeout ran out while the thread was still blocked in
\* an analysis call (analyzer.py:112)
Worker_stopJoined ==
    /\ wk_stop = "joining"
    /\ \/ wk_thread = "exited"
       \/ wk_joinLeft = 0 /\ wk_thread = "analyze" /\ wk_dur > 0
    /\ wk_stop' = "idle"
    /\ wk_timedOut' = (wk_thread # "exited")
    /\ wk_retAt' = IF wk_thread = "exited" /\ wk_retAt = 0
                   THEN wk_next ELSE wk_retAt
    /\ UNCHANGED <<wk_kind, wk_backup, wk_is_running, wk_queue, wk_thread,
                   wk_item, wk_dur, wk_file, wk_disk, wk_analysed, wk_failed,
                   wk_done, wk_next, wk_joinLeft, wk_stopSnap, wk_stopAlive,
                   wk_stopAt, wk_exitAt>>


(***************************************************************************)
(* Task Scheduler                                                          *)
(***************************************************************************)
Triggers == {"summary", "cleanup"}
Days == 0..MaxDays
TimesOfDay == 0..(TicksPerDay - 1)

\* the tick of the day of the cleanup job, "00:30" (scheduler.py:74): early
\* in the day, after midnight
CleanupTime == 1

DayOf(t) == t \div TicksPerDay
TimeOf(t) == t % TicksPerDay

\* the time of day a trigger is scheduled at (scheduler.py:70, 74)
AtTime(name) == IF name = "summary" THEN sch_summary_time ELSE CleanupTime

\* schedule: every().day.at(t).do(f) sets the job's first run to t today when
\* t is still ahead, else to t tomorrow (scheduler.py:70)
FirstRun(now, at) ==
    IF at > TimeOf(now) THEN DayOf(now) * TicksPerDay + at
    ELSE (DayOf(now) + 1) * TicksPerDay + at

\* schedule: after a run the job is set to t on the day after the run, or
\* to t today when that is still ahead (scheduler.py:39)
NextRun(now, at) ==
    IF at > TimeOf(now) THEN DayOf(now) * TicksPerDay + at
    ELSE (DayOf(now) + 1) * TicksPerDay + at

\* __init__ (scheduler.py:18-27); the process may start at any time of day 0
SchedulerInit ==
    /\ sch_summary_time \in TimesOfDay
    /\ sch_is_running = FALSE
    /\ sch_thread = "none"
    /\ sch_jobs = <<>>
    /\ sch_now \in TimesOfDay
    /\ sch_fired = [n \in Triggers |-> [d \in Days |-> 0]]
    /\ sch_startAt = -1
    /\ sch_stopped = FALSE

\* start() with the jobs registered whether or not the scheduler is running
Scheduler_startUnguarded ==
    /\ ~sch_stopped
    /\ sch_jobs' = sch_jobs \o
          << [name |-> "summary", next |-> FirstRun(sch_now, AtTime("summary"))],
             [name |-> "cleanup", next |-> FirstRun(sch_now, AtTime("cleanup"))] >>
    /\ sch_is_running' = TRUE
    /\ sch_thread' = IF sch_is_running THEN sch_thread ELSE "check"
    /\ sch_startAt' = IF sch_is_running THEN sch_startAt ELSE sch_now
    /\ UNCHANGED <<sch_summary_time, sch_now, sch_fired, sch_stopped>>

\* start() (scheduler.py:64-79): nothing when already running; else register
\* the two daily jobs and start the polling thread. Assistant.start() calls it
\* once and never after stop() (main.py:272-273)
Scheduler_start ==
    /\ ~sch_stopped
    /\ IF sch_is_running
       THEN UNCHANGED <<sch_jobs, sch_is_running, sch_thread, sch_startAt>>
       ELSE /\ sch_jobs' = sch_jobs \o
                 << [name |-> "summary",
                     next |-> FirstRun(sch_now, AtTime("summary"))],
                    [name |-> "cleanup",
                     next |-> FirstRun(sch_now, AtTime("cleanup"))] >>
            /\ sch_is_running' = TRUE
            /\ sch_thread' = "check"
            /\ sch_startAt' = sch_now
    /\ UNCHANGED <<sch_summary_time, sch_now, sch_fired, sch_stopped>>

\* _run_scheduler: the while test (scheduler.py:38)
SchedulerLoop ==
    /\ sch_thread = "check"
    /\ sch_thread' = IF sch_is_running THEN "pending" ELSE "exited"
    /\ UNCHANGED <<sch_summary_time, sch_is_running, sch_jobs, sch_now,
                   sch_fired, sch_startAt, sch_stopped>>

\* a job is due when the clock has reached its next run
Due(job) == sch_now >= job.next

\* how many due jobs carry the trigger's name
DueCount(name) ==
    Cardinality({i \in 1..Len(sch_jobs) :
                    sch_jobs[i].name = name /\ Due(sch_jobs[i])})

\* _run_scheduler: schedule.run_pending() (scheduler.py:39) runs every due
\* job once: _trigger_daily_summary / _trigger_cleanup invoke the registered
\* callback and catch what it raises (scheduler.py:44-62); each job run is
\* rescheduled
SchedulerRunPending ==
    /\ sch_thread = "pending"
    /\ sch_fired' = [n \in Triggers |->
                       [sch_fired[n] EXCEPT ![DayOf(sch_now)] = @ + DueCount(n)]]
    /\ sch_jobs' = [i \in 1..Len(sch_jobs) |->
                      IF Due(sch_jobs[i])
                      THEN [sch_jobs[i] EXCEPT
                              !.next = NextRun(sch_now, AtTime(sch_jobs[i].name))]
                      ELSE sch_jobs[i]]
    /\ sch_thread' = "sleep"
    /\ UNCHANGED <<sch_summary_time, sch_is_running, sch_now, sch_startAt,
                   sch_stopped>>

\* _run_scheduler: time.sleep(1) (scheduler.py:40): one poll tick passes
SchedulerSleep ==
    /\ sch_thread = "sleep"
    /\ sch_now + 1 < MaxDays * TicksPerDay
    /\ sch_now' = sch_now + 1
    /\ sch_thread' = "check"
    /\ UNCHANGED <<sch_summary_time, sch_is_running, sch_jobs, sch_fired,
                   sch_startAt, sch_stopped>>

\* time passing while no polling thread is running
SchedulerClock ==
    /\ sch_thread \in {"none", "exited"}
    /\ sch_now + 1 < MaxDays * TicksPerDay
    /\ sch_now' = sch_now + 1
    /\ UNCHANGED <<sch_summary_time, sch_is_running, sch_thread, sch_jobs,
                   sch_fired, sch_startAt, sch_stopped>>

\* stop() (scheduler.py:81-87): clear the flag and every job; the join waits
\* for the thread at most 5 s and changes no state
Scheduler_stop ==
    /\ sch_is_running' = FALSE
    /\ sch_jobs' = <<>>
    /\ sch_stopped' = TRUE
    /\ UNCHANGED <<sch_summary_time, sch_thread, sch_now, sch_fired,
                   sch_startAt>>

\* the scheduler as constructed with the default summary time, "22:00"
\* (scheduler.py:22), late in the day
SchedulerIdle ==
    /\ SchedulerInit
    /\ sch_summary_time = TicksPerDay - 1
    /\ sch_now = 0


(***************************************************************************)
(* Capture Producers: ScreenCapture and KeyboardRecorder                   *)
(***************************************************************************)
Loops == 1..MaxLoops
Caller == 0

\* __init__ (capture.py:22-47, recorder.py:19-35): not running, not paused,
\* no thread, no listener, an empty buffer
ProducerInit ==
    /\ pr_kind \in {"screen", "keyboard"}
    /\ pr_running = FALSE
    /\ pr_paused = FALSE
    /\ pr_pc = [t \in 0..MaxLoops |-> IF t = Caller THEN "idle" ELSE "none"]
    /\ pr_listeners = 0
    /\ pr_buffer = <<>>
    /\ pr_key = 0
    /\ pr_nextKey = 1
    /\ pr_seg = [t \in 0..MaxLoops |-> <<>>]
    /\ pr_log = <<>>
    /\ pr_enq = 0
    /\ pr_inPause = [t \in 0..MaxLoops |-> 0]
    /\ pr_keysInPause = 0
    /\ pr_stopped = FALSE
    /\ pr_again = FALSE

\* the cadence-loop threads that are inside their loop
LiveLoops == {t \in Loops : pr_pc[t] \notin {"none", "exited"}}

\* the threads created so far
Spawned == {t \in Loops : pr_pc[t] # "none"}

\* threading.Thread(...).start(): the next thread of this object
NewLoop == CHOOSE t \in Loops : pr_pc[t] = "none" /\
                 \A u \in Loops : u < t => pr_pc[u] # "none"

NoInPause == [t \in 0..MaxLoops |-> 0]

\* the callback on_capture_ready / on_log_ready is invoked by thread t
Invoked(t) ==
    /\ pr_enq' = pr_enq + 1
    /\ pr_inPause' = IF pr_paused
                     THEN [pr_inPause EXCEPT ![t] = @ + 1] ELSE pr_inPause

\* ScreenCapture.start() without its is_running test
ScreenCapture_startUnguarded ==
    /\ pr_kind = "screen"
    /\ Spawned # Loops
    /\ pr_again' = (pr_again \/ pr_running)
    /\ pr_running' = TRUE
    /\ pr_paused' = FALSE
    /\ pr_inPause' = NoInPause
    /\ pr_keysInPause' = 0
    /\ pr_pc' = [pr_pc EXCEPT ![NewLoop] = "init"]
    /\ UNCHANGED <<pr_kind, pr_listeners, pr_buffer, pr_key, pr_nextKey,
                   pr_seg, pr_log, pr_enq, pr_stopped>>

\* ScreenCapture.start() (capture.py:133-145): False when already running;
\* else set the flags and start _capture_loop in a new thread
ScreenCapture_start ==
    /\ pr_kind = "screen"
    /\ IF pr_running
       THEN /\ pr_again' = TRUE
            /\ UNCHANGED <<pr_running, pr_paused, pr_inPause, pr_keysInPause,
                           pr_pc>>
       ELSE /\ Spawned # Loops
            /\ pr_running' = TRUE
            /\ pr_paused' = FALSE
            /\ pr_inPause' = NoInPause
            /\ pr_keysInPause' = 0
            /\ pr_pc' = [pr_pc EXCEPT ![NewLoop] = "init"]
            /\ UNCHANGED pr_again
    /\ UNCHANGED <<pr_kind, pr_listeners, pr_buffer, pr_key, pr_nextKey,
                   pr_seg, pr_log, pr_enq, pr_stopped>>

\* _capture_loop: with mss.mss() and the monitor choice (capture.py:76-85)
ScreenLoopEnter(t) ==
    /\ pr_kind = "screen"
    /\ pr_pc[t] = "init"
    /\ pr_pc' = [pr_pc EXCEPT ![t] = "check"]
    /\ UNCHANGED <<pr_kind, pr_running, pr_paused, pr_listeners, pr_buffer,
                   pr_key, pr_nextKey, pr_seg, pr_log, pr_enq, pr_inPause,
                   pr_keysInPause, pr_stopped, pr_again>>

\* _capture_loop: while self.is_running (capture.py:87)
ScreenLoopTest(t) ==
    /\ pr_kind = "screen"
    /\ pr_pc[t] = "check"
    /\ pr_pc' = [pr_pc EXCEPT ![t] = IF pr_running THEN "flag" ELSE "exited"]
    /\ UNCHANGED <<pr_kind, pr_running, pr_paused, pr_listeners, pr_buffer,
                   pr_key, pr_nextKey, pr_seg, pr_log, pr_enq, pr_inPause,
                   pr_keysInPause, pr_stopped, pr_again>>

\* ScreenLoopFlag without the is_paused test
ScreenLoopFlagIgnored(t) ==
    /\ pr_kind = "screen"
    /\ pr_pc[t] = "flag"
    /\ \E skip \in BOOLEAN :
         pr_pc' = [pr_pc EXCEPT ![t] = IF skip THEN "sleep" ELSE "capture"]
    /\ UNCHANGED <<pr_kind, pr_running, pr_paused, pr_listeners, pr_buffer,
                   pr_key, pr_nextKey, pr_seg, pr_log, pr_enq, pr_inPause,
                   pr_keysInPause, pr_stopped, pr_again>>

\* _capture_loop: if self.is_paused or self._should_skip_capture(): sleep and
\* continue (capture.py:89-91); skip is whether the active window is on the
\* deny-list (capture.py:58-72)
ScreenLoopFlag(t) ==
    /\ pr_kind = "screen"
    /\ pr_pc[t] = "flag"
    /\ \E skip \in BOOLEAN :
         pr_pc' = [pr_pc EXCEPT ![t] =
                      IF pr_paused \/ skip THEN "sleep" ELSE "capture"]
    /\ UNCHANGED <<pr_kind, pr_running, pr_paused, pr_listeners, pr_buffer,
                   pr_key, pr_nextKey, pr_seg, pr_log, pr_enq, pr_inPause,
                   pr_keysInPause, pr_stopped, pr_again>>

\* a pass of _capture_loop whose exception is caught by nothing: it leaves
\* the while loop and the thread ends
ScreenLoopCaptureDies(t) ==
    /\ pr_kind = "screen"
    /\ pr_pc[t] = "capture"
    /\ \E ok \in BOOLEAN :
         IF ok
         THEN /\ pr_enq < MaxCaptures
              /\ Invoked(t)
              /\ pr_pc' = [pr_pc EXCEPT ![t] = "sleep"]
         ELSE /\ UNCHANGED <<pr_enq, pr_inPause>>
              /\ pr_pc' = [pr_pc EXCEPT ![t] = "exited"]
    /\ UNCHANGED <<pr_kind, pr_running, pr_paused, pr_listeners, pr_buffer,
                   pr_key, pr_nextKey, pr_seg, pr_log, pr_keysInPause,
                   pr_stopped, pr_again>>

\* _capture_loop: grab, convert, _save_screenshot, on_capture_ready(filepath)
\* (capture.py:94-103); a grab error is logged (capture.py:107-109) and a
\* save error gives no filepath (capture.py:129-131): nothing is handed over
ScreenLoopCapture(t) ==
    /\ pr_kind = "screen"
    /\ pr_pc[t] = "capture"
    /\ \E ok \in BOOLEAN :
         IF ok
         THEN pr_enq < MaxCaptures /\ Invoked(t)
         ELSE UNCHANGED <<pr_enq, pr_inPause>>
    /\ pr_pc' = [pr_pc EXCEPT ![t] = "sleep"]
    /\ UNCHANGED <<pr_kind, pr_running, pr_paused, pr_listeners, pr_buffer,
                   pr_key, pr_nextKey, pr_seg, pr_log, pr_keysInPause,
                   pr_stopped, pr_again>>

\* _capture_loop: time.sleep(self.interval) returns (capture.py:90, 105, 109)
ScreenLoopSleep(t) ==
    /\ pr_kind = "screen"
    /\ pr_pc[t] = "sleep"
    /\ pr_pc' = [pr_pc EXCEPT ![t] = "check"]
    /\ UNCHANGED <<pr_kind, pr_running, pr_paused, pr_listeners, pr_buffer,
                   pr_key, pr_nextKey, pr_seg, pr_log, pr_enq, pr_inPause,
                   pr_keysInPause, pr_stopped, pr_again>>

\* ScreenCapture.stop() up to the join (capture.py:147-154): nothing when not
\* running; else clear the flag and join the capture thread for at most 10 s
ScreenCapture_stop ==
    /\ pr_kind = "screen"
    /\ pr_pc[Caller] = "idle"
    /\ pr_stopped' = TRUE
    /\ IF pr_running
       THEN /\ pr_running' = FALSE
            /\ pr_pc' = [pr_pc EXCEPT ![Caller] = "joining"]
       ELSE UNCHANGED <<pr_running, pr_pc>>
    /\ UNCHANGED <<pr_kind, pr_paused, pr_listeners, pr_buffer, pr_key,
                   pr_nextKey, pr_seg, pr_log, pr_enq, pr_inPause,
                   pr_keysInPause, pr_again>>

\* ScreenCapture.stop(): join(timeout=10) returns (capture.py:154), the
\* thread ended or not: the loop may be asleep for longer than the timeout
ScreenCapture_stopJoined ==
    /\ pr_kind = "screen"
    /\ pr_pc[Caller] = "joining"
    /\ pr_pc' = [pr_pc EXCEPT ![Caller] = "idle"]
    /\ UNCHANGED <<pr_kind, pr_running, pr_paused, pr_listeners, pr_buffer,
                   pr_key, pr_nextKey, pr_seg, pr_log, pr_enq, pr_inPause,
                   pr_keysInPause, pr_stopped, pr_again>>

\* pause() (capture.py:158-161, recorder.py:135-138): set the flag
Producer_pause ==
    /\ pr_paused' = TRUE
    /\ pr_inPause' = NoInPause
    /\ pr_keysInPause' = 0
    /\ UNCHANGED <<pr_kind, pr_running, pr_pc, pr_listeners, pr_buffer, pr_key,
                   pr_nextKey, pr_seg, pr_log, pr_enq, pr_stopped, pr_again>>

\* resume() (capture.py:163-166, recorder.py:140-143): clear the flag
Producer_resume ==
    /\ pr_paused' = FALSE
    /\ pr_inPause' = NoInPause
    /\ pr_keysInPause' = 0
    /\ UNCHANGED <<pr_kind, pr_running, pr_pc, pr_listeners, pr_buffer, pr_key,
                   pr_nextKey, pr_seg, pr_log, pr_enq, pr_stopped, pr_again>>

\* KeyboardRecorder.start() (recorder.py:106-122): nothing when running; else
\* set the flags, start a listener and the _save_loop thread
KeyboardRecorder_start ==
    /\ pr_kind = "keyboard"
    /\ IF pr_running
       THEN /\ pr_again' = TRUE
            /\ UNCHANGED <<pr_running, pr_paused, pr_inPause, pr_keysInPause,
                           pr_pc, pr_listeners>>
       ELSE /\ Spawned # Loops
            /\ pr_running' = TRUE
            /\ pr_paused' = FALSE
            /\ pr_inPause' = NoInPause
            /\ pr_keysInPause' = 0
            /\ pr_listeners' = pr_listeners + 1
            /\ pr_pc' = [pr_pc EXCEPT ![NewLoop] = "check"]
            /\ UNCHANGED pr_again
    /\ UNCHANGED <<pr_kind, pr_buffer, pr_key, pr_nextKey, pr_seg, pr_log,
                   pr_enq, pr_stopped>>

\* _on_press: a key goes down while a listener runs; if self.paused: return
\* (recorder.py:37-40)
KeyboardOnPress ==
    /\ pr_kind = "keyboard"
    /\ pr_listeners > 0
    /\ pr_key = 0
    /\ pr_nextKey <= MaxKeys
    /\ pr_nextKey' = pr_nextKey + 1
    /\ pr_key' = IF pr_paused THEN 0 ELSE pr_nextKey
    /\ UNCHANGED <<pr_kind, pr_running, pr_paused, pr_pc, pr_listeners,
                   pr_buffer, pr_seg, pr_log, pr_enq, pr_inPause,
                   pr_keysInPause, pr_stopped, pr_again>>

\* _on_press: with self._lock: self.current_buffer.append(char)
\* (recorder.py:61-63)
KeyboardAppend ==
    /\ pr_kind = "keyboard"
    /\ pr_key # 0
    /\ pr_buffer' = Append(pr_buffer, pr_key)
    /\ pr_key' = 0
    /\ pr_keysInPause' = IF pr_paused THEN pr_keysInPause + 1
                         ELSE pr_keysInPause
    /\ UNCHANGED <<pr_kind, pr_running, pr_paused, pr_pc, pr_listeners,
                   pr_nextKey, pr_seg, pr_log, pr_enq, pr_inPause, pr_stopped,
                   pr_again>>

\* _save_loop: while self.running (recorder.py:69)
KeyboardLoopTest(t) ==
    /\ pr_kind = "keyboard"
    /\ pr_pc[t] = "check"
    /\ pr_pc' = [pr_pc EXCEPT ![t] = IF pr_running THEN "sleep" ELSE "exited"]
    /\ UNCHANGED <<pr_kind, pr_running, pr_paused, pr_listeners, pr_buffer,
                   pr_key, pr_nextKey, pr_seg, pr_log, pr_enq, pr_inPause,
                   pr_keysInPause, pr_stopped, pr_again>>

\* _save_loop: time.sleep(self.save_interval) returns (recorder.py:70)
KeyboardLoopSleep(t) ==
    /\ pr_kind = "keyboard"
    /\ pr_pc[t] = "sleep"
    /\ pr_pc' = [pr_pc EXCEPT ![t] = "flag"]
    /\ UNCHANGED <<pr_kind, pr_running, pr_paused, pr_listeners, pr_buffer,
                   pr_key, pr_nextKey, pr_seg, pr_log, pr_enq, pr_inPause,
                   pr_keysInPause, pr_stopped, pr_again>>

\* _save_loop: if not self.paused: self.save_buffer() (recorder.py:71-72)
KeyboardLoopFlag(t) ==
    /\ pr_kind = "keyboard"
    /\ pr_pc[t] = "flag"
    /\ pr_pc' = [pr_pc EXCEPT ![t] = IF pr_paused THEN "check" ELSE "take"]
    /\ UNCHANGED <<pr_kind, pr_running, pr_paused, pr_listeners, pr_buffer,
                   pr_key, pr_nextKey, pr_seg, pr_log, pr_enq, pr_inPause,
                   pr_keysInPause, pr_stopped, pr_again>>

\* where thread t goes on after save_buffer: the loop, or stop() returns
AfterSave(t) == IF t = Caller THEN "idle" ELSE "check"

\* save_buffer taking the content and leaving the buffer as it is
KeyboardSaveTakeKeeps(t) ==
    /\ pr_kind = "keyboard"
    /\ pr_pc[t] = "take"
    /\ IF pr_buffer = <<>>
       THEN /\ pr_pc' = [pr_pc EXCEPT ![t] = AfterSave(t)]
            /\ UNCHANGED pr_seg
       ELSE /\ pr_seg' = [pr_seg EXCEPT ![t] = pr_buffer]
            /\ pr_pc' = [pr_pc EXCEPT ![t] = "write"]
    /\ UNCHANGED <<pr_kind, pr_running, pr_paused, pr_listeners, pr_key,
                   pr_nextKey, pr_log, pr_enq, pr_inPause, pr_keysInPause,
                   pr_stopped, pr_again, pr_buffer>>

\* save_buffer under the lock (recorder.py:76-81): return on an empty
\* buffer, else take its content and empty it
KeyboardSaveTake(t) ==
    /\ pr_kind = "keyboard"
    /\ pr_pc[t] = "take"
    /\ IF pr_buffer = <<>>
       THEN /\ pr_pc' = [pr_pc EXCEPT ![t] = AfterSave(t)]
            /\ UNCHANGED <<pr_seg, pr_buffer>>
       ELSE /\ pr_seg' = [pr_seg EXCEPT ![t] = pr_buffer]
            /\ pr_buffer' = <<>>
            /\ pr_pc' = [pr_pc EXCEPT ![t] = "write"]
    /\ UNCHANGED <<pr_kind, pr_running, pr_paused, pr_listeners, pr_key,
                   pr_nextKey, pr_log, pr_enq, pr_inPause, pr_keysInPause,
                   pr_stopped, pr_again>>

\* save_buffer after the lock (recorder.py:83-104): append header and content
\* to keylog.txt and call on_log_ready(log_file); an error on the way is
\* logged and the content is gone
KeyboardSaveWrite(t) ==
    /\ pr_kind = "keyboard"
    /\ pr_pc[t] = "write"
    /\ \E ok \in BOOLEAN :
         IF ok
         THEN pr_log' = pr_log \o pr_seg[t] /\ Invoked(t)
         ELSE UNCHANGED <<pr_log, pr_enq, pr_inPause>>
    /\ pr_seg' = [pr_seg EXCEPT ![t] = <<>>]
    /\ pr_pc' = [pr_pc EXCEPT ![t] = AfterSave(t)]
    /\ UNCHANGED <<pr_kind, pr_running, pr_paused, pr_listeners, pr_buffer,
                   pr_key, pr_nextKey, pr_keysInPause, pr_stopped, pr_again>>

\* KeyboardRecorder.stop() up to save_buffer (recorder.py:124-132): clear the
\* flag, stop and forget the listener, then flush the buffer
KeyboardRecorder_stop ==
    /\ pr_kind = "keyboard"
    /\ pr_pc[Caller] = "idle"
    /\ pr_stopped' = TRUE
    /\ pr_running' = FALSE
    /\ pr_listeners' = IF pr_listeners > 0 THEN pr_listeners - 1 ELSE 0
    /\ pr_pc' = [pr_pc EXCEPT ![Caller] = "take"]
    /\ UNCHANGED <<pr_kind, pr_paused, pr_buffer, pr_key, pr_nextKey, pr_seg,
                   pr_log, pr_enq, pr_inPause, pr_keysInPause, pr_again>>

\* a Producer as constructed, for the specifications that do not move it
ProducerIdle == ProducerInit /\ pr_kind = "screen"

(***************************************************************************)
(* Orchestrator: Assistant, with its Producers, Workers, Scheduler and     *)
(* Event Source seen through the flags and queues it acts on               *)
(***************************************************************************)
Streams == {"audio", "screen", "keyboard"}
Events == {"on_sleep", "on_wake", "on_lock", "on_unlock"}

\* the order in which every power handler turns to the Producers
\* (main.py:188-222): audio_recorder, screen_capture, keyboard_recorder
HandlerOrder == <<"audio", "screen", "keyboard">>

\* the start() calls of Assistant.start(), in order (main.py:260-275)
StartOrderProducerFirst ==
    << [kind |-> "producer", stream |-> "audio"],
       [kind |-> "worker", stream |-> "audio"],
       [kind |-> "producer", stream |-> "screen"],
       [kind |-> "worker", stream |-> "screen"],
       [kind |-> "producer", stream |-> "keyboard"],
       [kind |-> "worker", stream |-> "keyboard"],
       [kind |-> "scheduler", stream |-> "none"],
       [kind |-> "power_monitor", stream |-> "none"] >>

StartOrder ==
    << [kind |-> "worker", stream |-> "audio"],
       [kind |-> "producer", stream |-> "audio"],
       [kind |-> "worker", stream |-> "screen"],
       [kind |-> "producer", stream |-> "screen"],
       [kind |-> "worker", stream |-> "keyboard"],
       [kind |-> "producer", stream |-> "keyboard"],
       [kind |-> "scheduler", stream |-> "none"],
       [kind |-> "power_monitor", stream |-> "none"] >>

\* stop() calls with every Worker stopped before its Producer
StopOrderWorkerFirst ==
    << [kind |-> "power_monitor", stream |-> "none"],
       [kind |-> "scheduler", stream |-> "none"],
       [kind |-> "worker", stream |-> "screen"],
       [kind |-> "producer", stream |-> "screen"],
       [kind |-> "worker", stream |-> "keyboard"],
       [kind |-> "producer", stream |-> "keyboard"],
       [kind |-> "worker", stream |-> "audio"],
       [kind |-> "producer", stream |-> "audio"] >>

\* the stop() calls of Assistant.stop(), in order (main.py:293-308)
StopOrder ==
    << [kind |-> "power_monitor", stream |-> "none"],
       [kind |-> "scheduler", stream |-> "none"],
       [kind |-> "producer", stream |-> "screen"],
       [kind |-> "worker", stream |-> "screen"],
       [kind |-> "producer", stream |-> "keyboard"],
       [kind |-> "worker", stream |-> "keyboard"],
       [kind |-> "producer", stream |-> "audio"],
       [kind |-> "worker", stream |-> "audio"] >>

NoProducer == [built |-> FALSE, running |-> FALSE, paused |-> FALSE]
NoWorker == [built |-> FALSE, running |-> FALSE, alive |-> FALSE]

\* Assistant.__init__ (main.py:26-42): every module is None; the
\* configuration is what settings.yaml holds
AssistantInit ==
    /\ as_enabled \in SUBSET Streams
    /\ as_pause_on_lock \in BOOLEAN
    /\ as_pc = "new"
    /\ as_i = 1
    /\ as_prod = [s \in Streams |-> NoProducer]
    /\ as_work = [s \in Streams |-> NoWorker]
    /\ as_queue = [s \in Streams |-> <<>>]
    /\ as_processed = [s \in Streams |-> <<>>]
    /\ as_sched = FALSE
    /\ as_pm = FALSE
    /\ as_startLog = <<>>
    /\ as_ev = "idle"
    /\ as_evI = 1
    /\ as_last = "none"
    /\ as_touched = {}
    /\ as_next = 1
    /\ as_pausedWith = [s \in Streams |-> {}]
    /\ as_stopLog = <<>>
    /\ as_lockIgnored = FALSE

\* ScreenCapture.start / KeyboardRecorder.start (capture.py:133-145,
\* recorder.py:106-122): nothing when running, else running and not paused
ProducerStarted(p) ==
    IF p.running THEN p ELSE [p EXCEPT !.running = TRUE, !.paused = FALSE]

\* ScreenCapture.stop / KeyboardRecorder.stop (capture.py:147-156,
\* recorder.py:124-133)
ProducerStopped(p) == [p EXCEPT !.running = FALSE]

\* ScreenCapture.pause / KeyboardRecorder.pause (capture.py:158-161,
\* recorder.py:135-138)
ProducerPaused(p) == [p EXCEPT !.paused = TRUE]

\* ScreenCapture.resume / KeyboardRecorder.resume (capture.py:163-166,
\* recorder.py:140-143)
ProducerResumed(p) == [p EXCEPT !.paused = FALSE]

\* AudioRecorder.start: Stopped -> Running, idempotent
AudioStarted(p) ==
    IF p.running THEN p ELSE [p EXCEPT !.running = TRUE, !.paused = FALSE]

\* AudioRecorder.stop: running := false
AudioStopped(p) == [p EXCEPT !.running = FALSE]

\* AudioRecorder.pause: set the flag consulted before each capture attempt
AudioPaused(p) == [p EXCEPT !.paused = TRUE]

\* AudioRecorder.resume: clear the flag
AudioResumed(p) == [p EXCEPT !.paused = FALSE]

\* the Producer of stream s after method m
ProducerAfter(s, m, p) ==
    IF s = "audio"
    THEN CASE m = "start" -> AudioStarted(p)
           [] m = "stop" -> AudioStopped(p)
           [] m = "pause" -> AudioPaused(p)
           [] m = "resume" -> AudioResumed(p)
    ELSE CASE m = "start" -> ProducerStarted(p)
           [] m = "stop" -> ProducerStopped(p)
           [] m = "pause" -> ProducerPaused(p)
           [] m = "resume" -> ProducerResumed(p)

\* Worker.start (analyzer.py:98-106): nothing when running, else the flag
\* and a new thread
WorkerStarted(w) ==
    IF w.running THEN w ELSE [w EXCEPT !.running = TRUE, !.alive = TRUE]

\* Worker.stop (analyzer.py:108-113): clear the flag, join with a timeout
WorkerStopped(w) == [w EXCEPT !.running = FALSE]

\* setup() with every module constructed whatever the configuration says
Assistant_setupAll ==
    /\ as_pc = "new"
    /\ as_prod' = [s \in Streams |-> [NoProducer EXCEPT !.built = TRUE]]
    /\ as_work' = [s \in Streams |-> [NoWorker EXCEPT !.built = TRUE]]
    /\ as_pc' = "starting"
    /\ UNCHANGED <<as_enabled, as_pause_on_lock, as_stopLog, as_lockIgnored,
                   as_i, as_queue, as_processed,
                   as_sched, as_pm, as_startLog, as_ev, as_evI, as_last,
                   as_touched, as_next, as_pausedWith>>

\* Assistant.start(): setup() (main.py:44-87, 98-126, 253): a stream's
\* Worker and Producer are constructed only when the stream is enabled; the
\* scheduler and the power monitor always are
Assistant_setup ==
    /\ as_pc = "new"
    /\ as_prod' = [s \in Streams |->
                     [NoProducer EXCEPT !.built = (s \in as_enabled)]]
    /\ as_work' = [s \in Streams |->
                     [NoWorker EXCEPT !.built = (s \in as_enabled)]]
    /\ as_pc' = "starting"
    /\ UNCHANGED <<as_enabled, as_pause_on_lock, as_stopLog, as_lockIgnored,
                   as_i, as_queue, as_processed,
                   as_sched, as_pm, as_startLog, as_ev, as_evI, as_last,
                   as_touched, as_next, as_pausedWith>>

\* Assistant.start(): the next "if self.x: self.x.start()" (main.py:260-275);
\* after the last one the main thread waits in its loop (main.py:281-283)
Assistant_startStep ==
    /\ as_pc = "starting"
    /\ LET c == StartOrder[as_i]
           s == c.stream
       IN /\ IF c.kind = "producer" /\ as_prod[s].built
             THEN /\ as_prod' = [as_prod EXCEPT
                                   ![s] = ProducerAfter(s, "start", @)]
                  /\ as_touched' = as_touched \cup {<<s, "start">>}
                  /\ as_startLog' = Append(as_startLog, c)
                  /\ UNCHANGED <<as_work, as_sched, as_pm>>
             ELSE IF c.kind = "worker" /\ as_work[s].built
             THEN /\ as_work' = [as_work EXCEPT ![s] = WorkerStarted(@)]
                  /\ as_startLog' = Append(as_startLog, c)
                  /\ UNCHANGED <<as_prod, as_touched, as_sched, as_pm>>
             ELSE IF c.kind = "scheduler"
             THEN /\ as_sched' = TRUE
                  /\ as_startLog' = Append(as_startLog, c)
                  /\ UNCHANGED <<as_prod, as_touched, as_work, as_pm>>
             ELSE IF c.kind = "power_monitor"
             THEN /\ as_pm' = TRUE
                  /\ as_startLog' = Append(as_startLog, c)
                  /\ UNCHANGED <<as_prod, as_touched, as_work, as_sched>>
             ELSE UNCHANGED <<as_prod, as_touched, as_work, as_sched, as_pm,
                              as_startLog>>
    /\ IF as_i = Len(StartOrder)
       THEN as_pc' = "running" /\ as_i' = 1
       ELSE as_pc' = as_pc /\ as_i' = as_i + 1
    /\ UNCHANGED <<as_enabled, as_pause_on_lock, as_stopLog, as_lockIgnored,
                   as_queue, as_processed,
                   as_ev, as_evI, as_last, as_next, as_pausedWith>>

\* handle_signal -> stop() while start() waits in its loop (main.py:281-290,
\* 312-313)
Assistant_signal ==
    /\ as_pc = "running"
    /\ as_pc' = "stopping"
    /\ as_i' = 1
    /\ UNCHANGED <<as_enabled, as_pause_on_lock, as_stopLog, as_lockIgnored,
                   as_prod, as_work, as_queue,
                   as_processed, as_sched, as_pm, as_startLog, as_ev, as_evI,
                   as_last, as_touched, as_next, as_pausedWith>>

\* Assistant.stop(): the next "if self.x: self.x.stop()" (main.py:293-308);
\* KeyboardRecorder.stop() flushes its buffer, which hands a log to
\* _on_keyboard_log_ready when the buffer holds keystrokes (recorder.py:131-132)
\* whether stop() calls the component's stop(): always for the power monitor
\* and the scheduler, for a Producer or Worker when setup() constructed it
StopCalls(c) ==
    \/ c.kind \in {"scheduler", "power_monitor"}
    \/ c.kind = "producer" /\ as_prod[c.stream].built
    \/ c.kind = "worker" /\ as_work[c.stream].built

Assistant_stopStep ==
    /\ as_pc = "stopping"
    /\ LET c == StopOrder[as_i]
           s == c.stream
       IN /\ IF c.kind = "producer" /\ as_prod[s].built
             THEN /\ as_prod' = [as_prod EXCEPT
                                   ![s] = ProducerAfter(s, "stop", @)]
                  /\ as_touched' = as_touched \cup {<<s, "stop">>}
                  /\ \E flush \in BOOLEAN :
                       IF flush /\ s = "keyboard" /\ as_next <= MaxCaptured
                       THEN /\ as_queue' = [as_queue EXCEPT
                                              ![s] = QueuePut(@, as_next)]
                            /\ as_next' = as_next + 1
                       ELSE UNCHANGED <<as_queue, as_next>>
                  /\ UNCHANGED <<as_work, as_sched, as_pm>>
             ELSE IF c.kind = "worker" /\ as_work[s].built
             THEN /\ as_work' = [as_work EXCEPT ![s] = WorkerStopped(@)]
                  /\ UNCHANGED <<as_prod, as_touched, as_sched, as_pm,
                                 as_queue, as_next>>
             ELSE IF c.kind = "scheduler"
             THEN /\ as_sched' = FALSE
                  /\ UNCHANGED <<as_prod, as_touched, as_work, as_pm,
                                 as_queue, as_next>>
             ELSE IF c.kind = "power_monitor"
             THEN /\ as_pm' = FALSE
                  /\ UNCHANGED <<as_prod, as_touched, as_work, as_sched,
                                 as_queue, as_next>>
             ELSE UNCHANGED <<as_prod, as_touched, as_work, as_sched, as_pm,
                              as_queue, as_next>>
    /\ IF as_i = Len(StopOrder)
       THEN as_pc' = "stopped" /\ as_i' = 1
       ELSE as_pc' = as_pc /\ as_i' = as_i + 1
    /\ as_stopLog' = IF StopCalls(StopOrder[as_i])
                     THEN Append(as_stopLog, StopOrder[as_i]) ELSE as_stopLog
    /\ UNCHANGED <<as_enabled, as_pause_on_lock, as_lockIgnored, as_processed,
                   as_startLog,
                   as_ev, as_evI, as_last, as_pausedWith>>

\* _window_proc without its pause_on_lock tests
PowerMonitor_dispatchAlways(e) ==
    /\ as_pm
    /\ as_ev = "idle"
    /\ as_ev' = e
    /\ as_evI' = 1
    /\ UNCHANGED <<as_enabled, as_pause_on_lock, as_stopLog, as_lockIgnored,
                   as_pc, as_i, as_prod, as_work, as_queue, as_processed,
                   as_sched, as_pm, as_startLog, as_last, as_touched, as_next,
                   as_pausedWith>>

\* PowerMonitor._window_proc and _trigger (power_monitor.py:51-82): a
\* message arrives while the monitor runs; sleep and wake always reach their
\* callback, lock and unlock only with pause_on_lock: without it they are
\* logged and dropped
PowerMonitor_dispatch(e) ==
    /\ as_pm
    /\ as_ev = "idle"
    /\ IF e \in {"on_lock", "on_unlock"} /\ ~as_pause_on_lock
       THEN /\ as_lockIgnored' = TRUE
            /\ UNCHANGED <<as_ev, as_evI>>
       ELSE /\ as_ev' = e
            /\ as_evI' = 1
            /\ UNCHANGED as_lockIgnored
    /\ UNCHANGED <<as_enabled, as_pause_on_lock, as_stopLog, as_pc, as_i,
                   as_prod, as_work, as_queue, as_processed, as_sched, as_pm,
                   as_startLog, as_last, as_touched, as_next, as_pausedWith>>

\* _on_wake / _on_unlock calling pause() where they should call resume()
HandlerMethodAlwaysPause(e) == "pause"

\* the Producer method a handler calls: _on_sleep and _on_lock pause,
\* _on_wake and _on_unlock resume (main.py:188-222)
HandlerMethod(e) == IF e \in {"on_sleep", "on_lock"} THEN "pause" ELSE "resume"

\* a handler step that, with pause(), also stops the stream's Worker and
\* empties its queue
Assistant_handlerStepStopsWorker ==
    /\ as_ev # "idle"
    /\ LET s == HandlerOrder[as_evI]
           m == HandlerMethod(as_ev)
       IN IF as_prod[s].built
          THEN /\ as_prod' = [as_prod EXCEPT ![s] = ProducerAfter(s, m, @)]
               /\ as_touched' = as_touched \cup {<<s, m>>}
               /\ as_pausedWith' =
                    IF m = "pause"
                    THEN [as_pausedWith EXCEPT ![s] = Range(as_queue[s])]
                    ELSE as_pausedWith
               /\ as_work' = IF m = "pause"
                             THEN [as_work EXCEPT ![s] = WorkerStopped(@)]
                             ELSE as_work
               /\ as_queue' = IF m = "pause"
                              THEN [as_queue EXCEPT ![s] = <<>>]
                              ELSE as_queue
          ELSE UNCHANGED <<as_prod, as_touched, as_pausedWith, as_work,
                           as_queue>>
    /\ IF as_evI = Len(HandlerOrder)
       THEN as_ev' = "idle" /\ as_evI' = 1 /\ as_last' = as_ev
       ELSE as_ev' = as_ev /\ as_evI' = as_evI + 1 /\ as_last' = as_last
    /\ UNCHANGED <<as_enabled, as_pause_on_lock, as_stopLog, as_lockIgnored,
                   as_pc, as_i, as_processed,
                   as_sched, as_pm, as_startLog, as_next>>

\* a handler's next "if self.x: self.x.pause()" or resume()
\* (main.py:188-222); the handler returns after the third
Assistant_handlerStep ==
    /\ as_ev # "idle"
    /\ LET s == HandlerOrder[as_evI]
           m == HandlerMethod(as_ev)
       IN IF as_prod[s].built
          THEN /\ as_prod' = [as_prod EXCEPT ![s] = ProducerAfter(s, m, @)]
               /\ as_touched' = as_touched \cup {<<s, m>>}
               /\ as_pausedWith' =
                    IF m = "pause"
                    THEN [as_pausedWith EXCEPT ![s] = Range(as_queue[s])]
                    ELSE as_pausedWith
          ELSE UNCHANGED <<as_prod, as_touched, as_pausedWith>>
    /\ IF as_evI = Len(HandlerOrder)
       THEN as_ev' = "idle" /\ as_evI' = 1 /\ as_last' = as_ev
       ELSE as_ev' = as_ev /\ as_evI' = as_evI + 1 /\ as_last' = as_last
    /\ UNCHANGED <<as_enabled, as_pause_on_lock, as_stopLog, as_lockIgnored,
                   as_pc, as_i, as_work,
                   as_queue, as_processed, as_sched, as_pm, as_startLog,
                   as_next>>

\* a cadence tick of stream s with the Producer running and not paused: the
\* artifact goes through _on_audio_chunk_ready / _on_screenshot_ready /
\* _on_keyboard_log_ready to the Worker's add_to_queue (capture.py:87-103,
\* recorder.py:67-104, main.py:164-185)
Assistant_capture(s) ==
    /\ as_prod[s].running
    /\ ~as_prod[s].paused
    /\ as_work[s].built
    /\ as_next <= MaxCaptured
    /\ as_queue' = [as_queue EXCEPT ![s] = QueuePut(@, as_next)]
    /\ as_next' = as_next + 1
    /\ UNCHANGED <<as_enabled, as_pause_on_lock, as_stopLog, as_lockIgnored,
                   as_pc, as_i, as_prod,
                   as_work, as_processed, as_sched, as_pm, as_startLog,
                   as_ev, as_evI, as_last, as_touched, as_pausedWith>>

\* the Worker thread of stream s dequeues and processes the artifact at the
\* head of its queue (analyzer.py:49-65)
Assistant_process(s) ==
    /\ as_work[s].alive
    /\ as_queue[s] # <<>>
    /\ as_processed' = [as_processed EXCEPT
                          ![s] = Append(@, QueueGet(as_queue[s]).item)]
    /\ as_queue' = [as_queue EXCEPT ![s] = QueueGet(@).rest]
    /\ UNCHANGED <<as_enabled, as_pause_on_lock, as_stopLog, as_lockIgnored,
                   as_pc, as_i, as_prod,
                   as_work, as_sched, as_pm, as_startLog, as_ev, as_evI,
                   as_last, as_touched, as_next, as_pausedWith>>

\* the Worker thread of stream s finds its flag cleared and its queue empty
\* and ends (analyzer.py:49)
Assistant_workerExit(s) ==
    /\ as_work[s].alive
    /\ ~as_work[s].running
    /\ as_queue[s] = <<>>
    /\ as_work' = [as_work EXCEPT ![s].alive = FALSE]
    /\ UNCHANGED <<as_enabled, as_pause_on_lock, as_stopLog, as_lockIgnored,
                   as_pc, as_i, as_prod,
                   as_queue, as_processed, as_sched, as_pm, as_startLog,
                   as_ev, as_evI, as_last, as_touched, as_next,
                   as_pausedWith>>

\* an Assistant as constructed, for the specifications that do not move it
AssistantIdle ==
    /\ AssistantInit
    /\ as_enabled = Streams
    /\ as_pause_on_lock = TRUE

(***************************************************************************)
(* One stream under the Assistant: its Producer in full, its Worker as the *)
(* Assistant's start() and stop() calls leave it                           *)
(***************************************************************************)
\* before Assistant.start(): the stream's Worker is constructed, not started
StreamIdle ==
    /\ st_worker = "none"
    /\ st_late = FALSE

\* Assistant.start(): screen_analyzer.start() / keyboard_analyzer.start()
\* (main.py:264-265, 268-269), before the Producer's start()
Stream_workerStart ==
    /\ st_worker = "none"
    /\ st_worker' = "started"
    /\ UNCHANGED st_late

\* Assistant.stop(): screen_analyzer.stop() / keyboard_analyzer.stop()
\* (main.py:299-300, 303-304), called once the Producer's stop() has returned
Stream_workerStop ==
    /\ st_worker = "started"
    /\ pr_stopped
    /\ pr_pc[Caller] = "idle"
    /\ st_worker' = "stopCalled"
    /\ UNCHANGED st_late

\* _on_screenshot_ready / _on_keyboard_log_ready (main.py:174-185): the
\* Producer's callback puts the artifact into the Worker's queue, whatever
\* the Worker's state
Stream_callback ==
    /\ st_late' = (st_late \/ (pr_enq' # pr_enq /\ st_worker # "started"))
    /\ UNCHANGED st_worker

(***************************************************************************)
(* Assistant.start() and Assistant.stop() as calls: called again, and      *)
(* called before start()                                                   *)
(***************************************************************************)
\* the component states a call of stop() can change
Components ==
    <<as_prod, [s \in Streams |-> as_work[s].running], as_queue, as_sched,
      as_pm>>

\* an Assistant as constructed (main.py:26-42): nothing set up, no thread
ApiIdle ==
    /\ ap_setups = 0
    /\ ap_loops = [s \in Streams |-> 0]
    /\ ap_workers = [s \in Streams |-> 0]
    /\ ap_raised = FALSE
    /\ ap_snap = <<>>
    /\ ap_stopCalls = 0

\* the threads a step of start() or stop() leaves running: a start() of a
\* stopped Producer or Worker starts its thread (capture.py:141-142,
\* analyzer.py:104-105), a stop() of a running one ends it
Api_threads ==
    /\ ap_loops' = [s \in Streams |->
          IF as_prod'[s].running /\ ~as_prod[s].running THEN ap_loops[s] + 1
          ELSE IF ~as_prod'[s].running /\ as_prod[s].running
          THEN ap_loops[s] - 1 ELSE ap_loops[s]]
    /\ ap_workers' = [s \in Streams |->
          IF as_work'[s].running /\ ~as_work[s].running THEN ap_workers[s] + 1
          ELSE IF ~as_work'[s].running /\ as_work[s].running
          THEN ap_workers[s] - 1 ELSE ap_workers[s]]

\* Assistant.start() called while the first call waits in its loop
\* (main.py:251-256): there is no test of self.running, so setup() runs again
\* and assigns a new Worker and Producer for every enabled stream, a new
\* TaskScheduler and a new PowerMonitor (main.py:61-78, 98-152); the objects
\* they replace keep their threads
Assistant_startAgain ==
    /\ as_pc = "running"
    /\ ap_setups < MaxStarts
    /\ ap_setups' = ap_setups + 1
    /\ as_prod' = [s \in Streams |->
                     [NoProducer EXCEPT !.built = (s \in as_enabled)]]
    /\ as_work' = [s \in Streams |->
                     [NoWorker EXCEPT !.built = (s \in as_enabled)]]
    /\ as_queue' = [s \in Streams |-> <<>>]
    /\ as_sched' = FALSE
    /\ as_pm' = FALSE
    /\ as_pc' = "starting"
    /\ as_i' = 1
    /\ UNCHANGED <<as_enabled, as_pause_on_lock, as_stopLog, as_lockIgnored,
                   as_processed, as_startLog, as_ev, as_evI, as_last,
                   as_touched, as_next, as_pausedWith>>
    /\ UNCHANGED <<ap_loops, ap_workers, ap_raised, ap_snap, ap_stopCalls>>

\* Assistant.stop() called before start() (main.py:287-290): self.logger is
\* still None (main.py:29), so self.logger.info raises AttributeError
Assistant_stopNew ==
    /\ as_pc = "new"
    /\ ~ap_raised
    /\ ap_raised' = TRUE
    /\ UNCHANGED asVars
    /\ UNCHANGED <<ap_setups, ap_loops, ap_workers, ap_snap, ap_stopCalls>>

\* Assistant.stop() called when stop() has already returned, as by a second
\* signal (main.py:287-313): it goes through every component again
Assistant_stopAgain ==
    /\ as_pc = "stopped"
    /\ ap_stopCalls < MaxStopCalls
    /\ ap_stopCalls' = ap_stopCalls + 1
    /\ ap_snap' = Components
    /\ as_pc' = "stopping"
    /\ as_i' = 1
    /\ UNCHANGED <<as_enabled, as_pause_on_lock, as_stopLog, as_lockIgnored,
                   as_prod, as_work, as_queue, as_processed, as_sched, as_pm,
                   as_startLog, as_ev, as_evI, as_last, as_touched, as_next,
                   as_pausedWith>>
    /\ UNCHANGED <<ap_setups, ap_loops, ap_workers, ap_raised>>

(***************************************************************************)
(* Analysis Worker under repeated start() and stop(): every thread it has  *)
(* started, none of them tied to the Assistant's single start              *)
(***************************************************************************)
Threads == 1..MaxThreads

\* __init__ (analyzer.py:26-43): not running, no thread, an empty queue
WorkersIdle ==
    /\ rw_is_running = FALSE
    /\ rw_pc = [t \in Threads |-> "none"]
    /\ rw_thread = 0
    /\ rw_queue = 0
    /\ rw_added = 0
    /\ rw_stop = "idle"

\* the worker threads that are inside their loop
Consumers == {t \in Threads : rw_pc[t] \notin {"none", "exited"}}

\* start() (analyzer.py:98-106, transcriber.py:61-66, keyboard/analyzer.py:
\* 85-93): nothing when _is_running; else set the flag and start _worker in
\* a new thread, which replaces _worker_thread
Workers_start ==
    /\ rw_stop = "idle"
    /\ IF rw_is_running
       THEN UNCHANGED <<rw_is_running, rw_pc, rw_thread>>
       ELSE /\ \E t \in Threads :
                 /\ rw_pc[t] = "none"
                 /\ \A u \in Threads : u < t => rw_pc[u] # "none"
                 /\ rw_pc' = [rw_pc EXCEPT ![t] = "check"]
                 /\ rw_thread' = t
            /\ rw_is_running' = TRUE
    /\ UNCHANGED <<rw_queue, rw_added, rw_stop>>

\* stop() up to the join (analyzer.py:108-112): clear the flag and join
\* _worker_thread if there is one
Workers_stop ==
    /\ rw_stop = "idle"
    /\ rw_is_running' = FALSE
    /\ rw_stop' = IF rw_thread # 0 THEN "joining" ELSE "idle"
    /\ UNCHANGED <<rw_pc, rw_thread, rw_queue, rw_added>>

\* stop(): join(timeout=60) returns (analyzer.py:112): the thread has ended,
\* or it is still inside an analysis call, which the API client lets run for
\* up to 120 s (openrouter_client.py:62)
Workers_stopJoined ==
    /\ rw_stop = "joining"
    /\ rw_pc[rw_thread] \in {"exited", "analyze"}
    /\ rw_stop' = "idle"
    /\ UNCHANGED <<rw_is_running, rw_pc, rw_thread, rw_queue, rw_added>>

\* add_to_queue (analyzer.py:115-118)
Workers_add_to_queue ==
    /\ rw_added < MaxArtifacts
    /\ rw_added' = rw_added + 1
    /\ rw_queue' = rw_queue + 1
    /\ UNCHANGED <<rw_is_running, rw_pc, rw_thread, rw_stop>>

\* _worker of thread t: the while test (analyzer.py:49)
WorkersLoop(t) ==
    /\ rw_pc[t] = "check"
    /\ rw_pc' = [rw_pc EXCEPT ![t] =
                    IF rw_is_running \/ rw_queue > 0 THEN "get" ELSE "exited"]
    /\ UNCHANGED <<rw_is_running, rw_thread, rw_queue, rw_added, rw_stop>>

\* _worker of thread t: get(timeout=1.0) returns an artifact, or raises
\* queue.Empty after a second (analyzer.py:51, 67-68)
WorkersGet(t) ==
    /\ rw_pc[t] = "get"
    /\ IF rw_queue > 0
       THEN /\ rw_queue' = rw_queue - 1
            /\ rw_pc' = [rw_pc EXCEPT ![t] = "analyze"]
       ELSE /\ rw_pc' = [rw_pc EXCEPT ![t] = "check"]
            /\ UNCHANGED rw_queue
    /\ UNCHANGED <<rw_is_running, rw_thread, rw_added, rw_stop>>

\* _worker of thread t: the analysis call returns or raises, the entry is
\* appended, the loop goes on (analyzer.py:54-70)
WorkersAnalysed(t) ==
    /\ rw_pc[t] = "analyze"
    /\ rw_pc' = [rw_pc EXCEPT ![t] = "check"]
    /\ UNCHANGED <<rw_is_running, rw_thread, rw_queue, rw_added, rw_stop>>

\* ---------------------------------------------------------------------
\* The PowerMonitor as an Event Source with registered listeners
\* (system/power_monitor.py)
\* ---------------------------------------------------------------------

\* the callables a client may register
Listeners == {"f", "g"}

\* register_callback calls made so far, over all events
Registrations ==
    Len(pm_registered["on_sleep"]) + Len(pm_registered["on_wake"])
        + Len(pm_registered["on_lock"]) + Len(pm_registered["on_unlock"])

\* PowerMonitor.__init__: an empty callback dict, not running
PowerIdle ==
    /\ pm_callbacks = [e \in Events |-> "none"]
    /\ pm_registered = [e \in Events |-> <<>>]
    /\ pm_pause_on_lock = TRUE
    /\ pm_is_running = FALSE
    /\ pm_thread = "none"
    /\ pm_event = "none"
    /\ pm_invoked = <<>>
    /\ pm_expected = <<>>
    /\ pm_dispatched = 0
    /\ pm_raises = 0
    /\ pm_logged = 0
    /\ pm_afterRaise = FALSE

\* register_callback(event, callback): self._callbacks[event] = callback
PowerMonitor_register_callback(e, l) ==
    /\ Registrations < MaxRegistrations
    /\ pm_callbacks' = [pm_callbacks EXCEPT ![e] = l]
    /\ pm_registered' = [pm_registered EXCEPT ![e] = Append(@, l)]
    /\ UNCHANGED <<pm_pause_on_lock, pm_is_running, pm_thread, pm_event,
                   pm_invoked, pm_expected, pm_dispatched, pm_raises,
                   pm_logged, pm_afterRaise>>

\* start(): returns if already running, else starts the message loop
PowerMonitor_start ==
    /\ IF pm_is_running
       THEN UNCHANGED <<pm_is_running, pm_thread>>
       ELSE pm_is_running' = TRUE /\ pm_thread' = "loop"
    /\ UNCHANGED <<pm_callbacks, pm_registered, pm_pause_on_lock, pm_event,
                   pm_invoked, pm_expected, pm_dispatched, pm_raises,
                   pm_logged, pm_afterRaise>>

\* stop(): clears the flag (the window is destroyed best-effort)
PowerMonitor_stop ==
    /\ pm_is_running' = FALSE
    /\ UNCHANGED <<pm_callbacks, pm_registered, pm_pause_on_lock, pm_thread,
                   pm_event, pm_invoked, pm_expected, pm_dispatched,
                   pm_raises, pm_logged, pm_afterRaise>>

\* _message_loop: the while test finds the flag cleared, the thread ends
PowerMonitor_loopExit ==
    /\ pm_thread = "loop"
    /\ ~pm_is_running
    /\ pm_thread' = "exited"
    /\ UNCHANGED <<pm_callbacks, pm_registered, pm_pause_on_lock, pm_is_running,
                   pm_event, pm_invoked, pm_expected, pm_dispatched,
                   pm_raises, pm_logged, pm_afterRaise>>

\* a dispatch in which the listener's exception is caught by nothing on
\* its way out of DispatchMessageW: _message_loop's handler ends the thread
PowerMonitor_triggerUncaught(e, raises) ==
    IF pm_callbacks[e] # "none"
    THEN /\ pm_invoked' = <<pm_callbacks[e]>>
         /\ pm_afterRaise' = (pm_afterRaise \/ pm_raises > 0)
         /\ IF raises
            THEN /\ pm_raises' = pm_raises + 1
                 /\ pm_thread' = "dead"
                 /\ UNCHANGED pm_logged
            ELSE UNCHANGED <<pm_raises, pm_logged, pm_thread>>
    ELSE /\ pm_invoked' = <<>>
         /\ UNCHANGED <<pm_raises, pm_logged, pm_afterRaise, pm_thread>>

\* _trigger(event): the one callback stored for the event is called inside
\* try/except Exception; an exception is logged and goes no further
PowerMonitor_trigger(e, raises) ==
    IF pm_callbacks[e] # "none"
    THEN /\ pm_invoked' = <<pm_callbacks[e]>>
         /\ pm_afterRaise' = (pm_afterRaise \/ pm_raises > 0)
         /\ IF raises
            THEN /\ pm_raises' = pm_raises + 1
                 /\ pm_logged' = pm_logged + 1
            ELSE UNCHANGED <<pm_raises, pm_logged>>
         /\ UNCHANGED pm_thread
    ELSE /\ pm_invoked' = <<>>
         /\ UNCHANGED <<pm_raises, pm_logged, pm_afterRaise, pm_thread>>

\* _window_proc handles one message: sleep and wake always trigger, lock
\* and unlock only with pause_on_lock; raises: the callback raises
PowerMonitor_window_proc(e, raises) ==
    /\ pm_thread = "loop"
    /\ pm_dispatched < MaxDispatches
    /\ pm_dispatched' = pm_dispatched + 1
    /\ pm_event' = e
    /\ IF e \in {"on_lock", "on_unlock"} /\ ~pm_pause_on_lock
       THEN /\ pm_invoked' = <<>>
            /\ pm_expected' = <<>>
            /\ UNCHANGED <<pm_raises, pm_logged, pm_afterRaise, pm_thread>>
       ELSE /\ pm_expected' = pm_registered[e]
            /\ PowerMonitor_trigger(e, raises)
    /\ UNCHANGED <<pm_callbacks, pm_registered, pm_pause_on_lock, pm_is_running>>

\* ---------------------------------------------------------------------
\* TaskScheduler with its callbacks: registration, callbacks that raise,
\* run_now (system/scheduler.py)
\* ---------------------------------------------------------------------

\* the names the Assistant registers callbacks under (main.py:143-144)
CallbackNames == {"on_summary_time", "on_cleanup"}

\* the task names run_now may be given: those it knows (scheduler.py:91, 93)
\* and the callback names, which it does not
TaskNames == Triggers \cup CallbackNames

\* the callback name each trigger function looks up (scheduler.py:48, 58)
CallbackOf(n) == IF n = "summary" THEN "on_summary_time" ELSE "on_cleanup"

\* __init__: no callback registered (scheduler.py:27)
TriggersIdle ==
    /\ tg_callbacks = {}
    /\ tg_raised = [n \in Triggers |-> {}]
    /\ tg_logged = [n \in Triggers |-> {}]
    /\ tg_calls = 0
    /\ tg_task = "none"
    /\ tg_manual = [n \in Triggers |-> 0]

\* register_callback(name, callback) (scheduler.py:29-32)
TaskScheduler_register_callback(name) ==
    /\ tg_callbacks' = tg_callbacks \cup {name}
    /\ UNCHANGED <<tg_raised, tg_logged, tg_calls, tg_task, tg_manual>>

\* the triggers whose job is due and whose callback is registered and raises
\* in this poll; R: the triggers whose callback raises when invoked
RaisingNow(R) ==
    {n \in R : DueCount(n) > 0 /\ CallbackOf(n) \in tg_callbacks}

\* a poll in which an exception of a callback is caught by nothing: it
\* leaves run_pending() and _run_scheduler, the thread ends and the job is
\* not rescheduled
TaskScheduler_runPendingUncaught(R) ==
    IF RaisingNow(R) # {}
    THEN /\ sch_thread = "pending"
         /\ sch_thread' = "exited"
         /\ sch_fired' = [n \in Triggers |->
                 IF n \in RaisingNow(R)
                 THEN [sch_fired[n] EXCEPT ![DayOf(sch_now)] = @ + 1]
                 ELSE sch_fired[n]]
         /\ tg_raised' = [n \in Triggers |->
                 IF n \in RaisingNow(R)
                 THEN tg_raised[n] \cup {DayOf(sch_now)} ELSE tg_raised[n]]
         /\ UNCHANGED <<sch_summary_time, sch_is_running, sch_now, sch_startAt,
                        sch_stopped, sch_jobs, tg_callbacks, tg_logged,
                        tg_calls, tg_task, tg_manual>>
    ELSE /\ SchedulerRunPending
         /\ UNCHANGED tgVars

\* _run_scheduler: run_pending() runs every due job; _trigger_daily_summary
\* and _trigger_cleanup call the registered callback inside try/except
\* Exception and log what it raises (scheduler.py:44-62), so the job returns
\* normally, is rescheduled, and the loop goes on to its sleep
TaskScheduler_runPending(R) ==
    /\ SchedulerRunPending
    /\ tg_raised' = [n \in Triggers |->
            IF n \in RaisingNow(R)
            THEN tg_raised[n] \cup {DayOf(sch_now)} ELSE tg_raised[n]]
    /\ tg_logged' = [n \in Triggers |->
            IF n \in RaisingNow(R)
            THEN tg_logged[n] \cup {DayOf(sch_now)} ELSE tg_logged[n]]
    /\ UNCHANGED <<tg_callbacks, tg_calls, tg_task, tg_manual>>

\* run_now that runs the task only while the scheduler is running
TaskScheduler_run_nowIfRunning(task, raises) ==
    /\ tg_calls < MaxRunNow
    /\ tg_calls' = tg_calls + 1
    /\ tg_task' = task
    /\ IF sch_is_running /\ task \in Triggers /\ CallbackOf(task) \in tg_callbacks
       THEN /\ tg_manual' = [tg_manual EXCEPT ![task] = @ + 1]
            /\ IF raises
               THEN /\ tg_raised' = [tg_raised EXCEPT
                                        ![task] = @ \cup {DayOf(sch_now)}]
                    /\ tg_logged' = [tg_logged EXCEPT
                                        ![task] = @ \cup {DayOf(sch_now)}]
               ELSE UNCHANGED <<tg_raised, tg_logged>>
       ELSE UNCHANGED <<tg_manual, tg_raised, tg_logged>>
    /\ UNCHANGED tg_callbacks

\* run_now(task) (scheduler.py:89-94): 'summary' and 'cleanup' call their
\* trigger function at once, any other name does nothing; the trigger
\* function calls the callback registered under its own name, if any, and
\* catches what it raises. No clock, flag or job is read or changed.
TaskScheduler_run_now(task, raises) ==
    /\ tg_calls < MaxRunNow
    /\ tg_calls' = tg_calls + 1
    /\ tg_task' = task
    /\ IF task \in Triggers /\ CallbackOf(task) \in tg_callbacks
       THEN /\ tg_manual' = [tg_manual EXCEPT ![task] = @ + 1]
            /\ IF raises
               THEN /\ tg_raised' = [tg_raised EXCEPT
                                        ![task] = @ \cup {DayOf(sch_now)}]
                    /\ tg_logged' = [tg_logged EXCEPT
                                        ![task] = @ \cup {DayOf(sch_now)}]
               ELSE UNCHANGED <<tg_raised, tg_logged>>
       ELSE UNCHANGED <<tg_manual, tg_raised, tg_logged>>
    /\ UNCHANGED tg_callbacks

\* ---------------------------------------------------------------------
\* Assistant._generate_daily_summary, the daily-summary callback
\* (main.py:225-243)
\* ---------------------------------------------------------------------

\* the calls inside the try block that may raise
SummarySteps == {"generate", "email", "upload"}

\* setup() not yet run: no collaborator built (main.py:36-38)
SummaryIdle ==
    /\ sm_email = FALSE
    /\ sm_drive = FALSE
    /\ sm_triggers = 0
    /\ sm_generated = 0
    /\ sm_sent = 0
    /\ sm_uploaded = 0
    /\ sm_raised = 0
    /\ sm_logged = 0
    /\ sm_alerts = 0
    /\ sm_escaped = FALSE

\* the calls of the try block that are reached when the call at step
\* `fails` raises ("none": nothing raises); exists: resumo.md is on disk
SummaryReaches(step, fails, exists) ==
    /\ CASE step = "generate" -> TRUE
         [] step = "email" -> sm_email /\ fails # "generate"
         [] step = "upload" -> sm_drive /\ exists
                                   /\ fails \notin {"generate", "email"}
\* whether the call that raises is one the run reaches
SummaryFails(fails, exists) ==
    fails \in SummarySteps /\ SummaryReaches(fails, fails, exists)

\* the handler without its try/except: what is raised leaves the function
Assistant_generate_daily_summaryUncaught(fails, exists) ==
    /\ sm_triggers < MaxSummaries
    /\ sm_triggers' = sm_triggers + 1
    /\ sm_generated' = sm_generated + 1
    /\ sm_sent' = sm_sent +
           (IF SummaryReaches("email", fails, exists) THEN 1 ELSE 0)
    /\ sm_uploaded' = sm_uploaded +
           (IF SummaryReaches("upload", fails, exists) THEN 1 ELSE 0)
    /\ IF SummaryFails(fails, exists)
       THEN /\ sm_raised' = sm_raised + 1
            /\ sm_escaped' = TRUE
       ELSE UNCHANGED <<sm_raised, sm_escaped>>
    /\ UNCHANGED <<sm_email, sm_drive, sm_logged, sm_alerts>>

\* _generate_daily_summary (main.py:225-243): generate() once, then the
\* e-mail and the upload when their collaborator is built; an exception of
\* any of them ends the try block, is logged, and an error alert is
\* requested from the e-mail sender, whose send() catches its own errors
\* (email_sender.py:76-78)
Assistant_generate_daily_summary(fails, exists) ==
    /\ sm_triggers < MaxSummaries
    /\ sm_triggers' = sm_triggers + 1
    /\ sm_generated' = sm_generated + 1
    /\ sm_sent' = sm_sent +
           (IF SummaryReaches("email", fails, exists) THEN 1 ELSE 0)
    /\ sm_uploaded' = sm_uploaded +
           (IF SummaryReaches("upload", fails, exists) THEN 1 ELSE 0)
    /\ IF SummaryFails(fails, exists)
       THEN /\ sm_raised' = sm_raised + 1
            /\ sm_logged' = sm_logged + 1
            /\ sm_alerts' = sm_alerts + (IF sm_email THEN 1 ELSE 0)
       ELSE UNCHANGED <<sm_raised, sm_logged, sm_alerts>>
    /\ UNCHANGED <<sm_email, sm_drive, sm_escaped>>

\* ---------------------------------------------------------------------
\* Capture Producers with failing captures and the keystroke buffer
\* followed through its flushes (screen/capture.py, keyboard/recorder.py)
\* ---------------------------------------------------------------------

\* nothing has failed, nothing has been flushed
CaptureIdle ==
    /\ cf_failed = {}
    /\ cf_logged = {}
    /\ cf_recovered = {}
    /\ cf_atStop = <<>>
    /\ cf_taken = <<>>

\* thread t handed an artifact over, or an exception was raised and caught
\* in it: except Exception logs it (capture.py:107-108, recorder.py:103-104)
CaptureOutcome(t, handed) ==
    /\ cf_failed' = IF handed THEN cf_failed ELSE cf_failed \cup {t}
    /\ cf_logged' = IF handed THEN cf_logged ELSE cf_logged \cup {t}
    /\ cf_recovered' = IF handed /\ t \in cf_failed
                       THEN cf_recovered \cup {t} ELSE cf_recovered

\* _capture_loop: one pass of the try block (capture.py:88-109)
Capture_screen(t) ==
    /\ ScreenLoopCapture(t)
    /\ CaptureOutcome(t, pr_enq' # pr_enq)
    /\ UNCHANGED <<cf_atStop, cf_taken>>

\* save_buffer: the try block after the lock (recorder.py:83-104)
Capture_write(t) ==
    /\ KeyboardSaveWrite(t)
    /\ CaptureOutcome(t, pr_enq' # pr_enq)
    /\ UNCHANGED <<cf_atStop, cf_taken>>

\* save_buffer: the block under the lock (recorder.py:76-81)
Capture_take(t) ==
    /\ KeyboardSaveTake(t)
    /\ cf_taken' = IF pr_seg' # pr_seg THEN cf_taken \o pr_seg'[t]
                   ELSE cf_taken
    /\ UNCHANGED <<cf_failed, cf_logged, cf_recovered, cf_atStop>>

\* KeyboardRecorder.stop() is called (recorder.py:124-132)
Capture_stop ==
    /\ KeyboardRecorder_stop
    /\ cf_atStop' = pr_buffer
    /\ UNCHANGED <<cf_failed, cf_logged, cf_recovered, cf_taken>>

\* ---------------------------------------------------------------------
\* Artifacts from capture to the aggregate file: the file a Producer
\* writes, the reference it enqueues, what the Worker reads, and the day
\* folder the result is appended in (screen/capture.py, keyboard/recorder.py,
\* screen/analyzer.py, keyboard/analyzer.py)
\* ---------------------------------------------------------------------
ArtifactDays == 0..LastDay
ArtifactIds == 1..MaxSegments

\* the file an artifact is written to: a screenshot gets a file of its own,
\* named by its timestamp, in the folder of the day (capture.py:116-124);
\* a keystroke segment is appended to keylog.txt of the day
\* (recorder.py:84-96). A path is <<day folder, file>>, file 0 being keylog.txt
ArtifactPath(kind, day, id) ==
    IF kind = "keyboard" THEN <<day, 0>> ELSE <<day, id>>

ArtifactPaths == ArtifactDays \X (0..MaxSegments)

\* nothing captured, the queue empty
ArtifactsIdle ==
    /\ ar_kind = "screen"
    /\ ar_day = 0
    /\ ar_next = 1
    /\ ar_dayKey = [id \in ArtifactIds |-> 0]
    /\ ar_files = [p \in ArtifactPaths |-> <<>>]
    /\ ar_queue = <<>>
    /\ ar_item = <<>>
    /\ ar_reads = <<>>
    /\ ar_results = [d \in ArtifactDays |-> <<>>]

\* midnight passes: get_today_folder() gives the next day from now on
\* (helpers.py:17-19)
Artifacts_midnight ==
    /\ ar_day < LastDay
    /\ ar_day' = ar_day + 1
    /\ UNCHANGED <<ar_kind, ar_next, ar_dayKey, ar_files, ar_queue, ar_item,
                   ar_reads, ar_results>>

\* the Producer writes an artifact to its file in today's folder and hands
\* the path to add_to_queue through the Assistant's callback
\* (capture.py:100-103, recorder.py:83-101, main.py:174-185)
Artifacts_capture ==
    /\ ar_next <= MaxSegments
    /\ LET p == ArtifactPath(ar_kind, ar_day, ar_next)
           written == Append(ar_files[p], ar_next)
       IN /\ ar_files' = [ar_files EXCEPT ![p] = written]
          /\ ar_queue' = Append(ar_queue,
                 [path |-> p, id |-> ar_next, wrote |-> written])
    /\ ar_dayKey' = [ar_dayKey EXCEPT ![ar_next] = ar_day]
    /\ ar_next' = ar_next + 1
    /\ UNCHANGED <<ar_kind, ar_day, ar_item, ar_reads, ar_results>>

\* _worker: get a path from the queue and read the file at that path now:
\* analyze_image opens the screenshot (openrouter_client.py:264-265),
\* KeyboardAnalyzer reads the whole log (keyboard/analyzer.py:43-47)
Artifacts_get ==
    /\ ar_item = <<>>
    /\ ar_queue # <<>>
    /\ LET q == Head(ar_queue)
       IN /\ ar_item' = <<q.id>>
          /\ ar_reads' = Append(ar_reads,
                 [id |-> q.id, wrote |-> q.wrote, read |-> ar_files[q.path]])
    /\ ar_queue' = Tail(ar_queue)
    /\ UNCHANGED <<ar_kind, ar_day, ar_next, ar_dayKey, ar_files, ar_results>>

\* _worker: the analysis call has returned and _save_analysis appends the
\* entry to the aggregate file in output_dir / get_today_folder(), the
\* folder of the day of the save (analyzer.py:75-81,
\* keyboard/analyzer.py:71-78)
Artifacts_save ==
    /\ ar_item # <<>>
    /\ ar_results' = [ar_results EXCEPT ![ar_day] = Append(@, ar_item[1])]
    /\ ar_item' = <<>>
    /\ UNCHANGED <<ar_kind, ar_day, ar_next, ar_dayKey, ar_files, ar_queue,
                   ar_reads>>

\* _worker: the analysis call or the read raised: logged, the artifact is
\* dropped (analyzer.py:69-70, keyboard/analyzer.py:65-66)
Artifacts_fail ==
    /\ ar_item # <<>>
    /\ ar_item' = <<>>
    /\ UNCHANGED <<ar_kind, ar_day, ar_next, ar_dayKey, ar_files, ar_queue,
                   ar_reads, ar_results>>

(***************************************************************************)
(* Assistant.stop() over components whose threads may not exit             *)
(***************************************************************************)
StopPositions == 1..Len(StopOrder)

\* `if self.<component>:` of Assistant.stop() (main.py:293-308): the power
\* monitor and the scheduler are always built (main.py:77-78), a stream's
\* two components when the configuration enables the stream
ShutdownBuilt(i, enabled) ==
    \/ StopOrder[i].kind \in {"power_monitor", "scheduler"}
    \/ StopOrder[i].stream \in enabled

\* AudioRecorder.stop() waits for its cadence loop with a bounded timeout
\* (a Producer's stop() of the specification)
AudioRecorderJoins == TRUE

\* the stop() methods that join their thread with a timeout: TaskScheduler
\* (scheduler.py:86-87), ScreenCapture (capture.py:153-154), the three
\* Workers (analyzer.py:111-112) and AudioRecorder; PowerMonitor.stop()
\* (power_monitor.py:125-134) and KeyboardRecorder.stop()
\* (recorder.py:124-133) join nothing
ShutdownJoins(i) ==
    \/ StopOrder[i].kind \in {"scheduler", "worker"}
    \/ StopOrder[i].kind = "producer" /\ StopOrder[i].stream = "screen"
    \/ StopOrder[i].kind = "producer" /\ StopOrder[i].stream = "audio"
                                      /\ AudioRecorderJoins

ShutdownIdle ==
    /\ sd_phase = "built"
    /\ sd_enabled = {}
    /\ sd_thread = [i \in StopPositions |-> "none"]
    /\ sd_flag = [i \in StopPositions |-> FALSE]
    /\ sd_at = 0
    /\ sd_wait = "none"
    /\ sd_timer = 0
    /\ sd_called = {}
    /\ sd_abandoned = {}

\* Assistant.start() up to its wait loop (main.py:256-275): every built
\* component is started, which sets its flag and starts its thread
Shutdown_start(enabled) ==
    /\ sd_phase = "built"
    /\ sd_phase' = "running"
    /\ sd_enabled' = enabled
    /\ sd_thread' = [i \in StopPositions |->
                        IF ShutdownBuilt(i, enabled) THEN "live" ELSE "none"]
    /\ sd_flag' = [i \in StopPositions |-> ShutdownBuilt(i, enabled)]
    /\ UNCHANGED <<sd_at, sd_wait, sd_timer, sd_called, sd_abandoned>>

\* a thread enters a call that does not return: the analysis call of a
\* Worker (analyzer.py:54-58), a callback of the polling loop
\* (scheduler.py:39), or a sleep longer than any join (capture.py:105)
Shutdown_block(i) ==
    /\ sd_phase = "running"
    /\ sd_thread[i] = "live"
    /\ ShutdownJoins(i)
    /\ sd_thread' = [sd_thread EXCEPT ![i] = "blocked"]
    /\ UNCHANGED <<sd_phase, sd_enabled, sd_flag, sd_at, sd_wait, sd_timer,
                   sd_called, sd_abandoned>>

\* a thread that is not blocked tests its flag, finds it false and ends
\* (analyzer.py:49, capture.py:87, scheduler.py:38, recorder.py:69,
\* power_monitor.py:108)
Shutdown_exit(i) ==
    /\ sd_thread[i] = "live"
    /\ ~sd_flag[i]
    /\ sd_thread' = [sd_thread EXCEPT ![i] = "exited"]
    /\ UNCHANGED <<sd_phase, sd_enabled, sd_flag, sd_at, sd_wait, sd_timer,
                   sd_called, sd_abandoned>>

\* Assistant.stop() is entered (main.py:287-290)
Shutdown_begin ==
    /\ sd_phase = "running"
    /\ sd_phase' = "stopping"
    /\ sd_at' = 1
    /\ sd_wait' = "call"
    /\ UNCHANGED <<sd_enabled, sd_thread, sd_flag, sd_timer, sd_called,
                   sd_abandoned>>

\* stop() moves past position sd_at; after the last one it logs and
\* returns (main.py:310)
ShutdownAdvance ==
    /\ sd_wait' = IF sd_at = Len(StopOrder) THEN "none" ELSE "call"
    /\ sd_at' = IF sd_at = Len(StopOrder) THEN sd_at ELSE sd_at + 1
    /\ sd_phase' = IF sd_at = Len(StopOrder) THEN "returned" ELSE sd_phase

\* the next `if self.<component>: self.<component>.stop()` of
\* Assistant.stop() (main.py:293-308): the component's flag is cleared
\* and, where its stop() joins, the join begins
Shutdown_call ==
    /\ sd_phase = "stopping"
    /\ sd_wait = "call"
    /\ IF ~ShutdownBuilt(sd_at, sd_enabled)
       THEN /\ ShutdownAdvance
            /\ UNCHANGED <<sd_flag, sd_called, sd_timer>>
       ELSE /\ sd_flag' = [sd_flag EXCEPT ![sd_at] = FALSE]
            /\ sd_called' = sd_called \cup {sd_at}
            /\ IF ShutdownJoins(sd_at)
               THEN /\ sd_wait' = "join"
                    /\ sd_timer' = JoinBound
                    /\ UNCHANGED <<sd_at, sd_phase>>
               ELSE /\ ShutdownAdvance
                    /\ UNCHANGED sd_timer
    /\ UNCHANGED <<sd_enabled, sd_thread, sd_abandoned>>

\* time passes while stop() waits in a join
Shutdown_tick ==
    /\ sd_wait = "join"
    /\ sd_timer > 0
    /\ sd_thread[sd_at] # "exited"
    /\ sd_timer' = sd_timer - 1
    /\ UNCHANGED <<sd_phase, sd_enabled, sd_thread, sd_flag, sd_at, sd_wait,
                   sd_called, sd_abandoned>>

\* a join that has no timeout: it returns when the thread has ended
Shutdown_joinedNoTimeout ==
    /\ sd_wait = "join"
    /\ sd_thread[sd_at] = "exited"
    /\ ShutdownAdvance
    /\ UNCHANGED <<sd_enabled, sd_thread, sd_flag, sd_timer, sd_called,
                   sd_abandoned>>

\* thread.join(timeout=...) returns (scheduler.py:87, capture.py:154,
\* analyzer.py:112, keyboard/analyzer.py:98, transcriber.py:71): the thread
\* has ended, or the timeout has run out and the thread is left behind;
\* what a thread left behind does later is not followed
Shutdown_joined ==
    /\ sd_wait = "join"
    /\ sd_thread[sd_at] = "exited" \/ sd_timer = 0
    /\ sd_abandoned' = IF sd_thread[sd_at] = "exited" THEN sd_abandoned
                       ELSE sd_abandoned \cup {sd_at}
    /\ sd_thread' = IF sd_thread[sd_at] = "exited" THEN sd_thread
                    ELSE [sd_thread EXCEPT ![sd_at] = "left"]
    /\ ShutdownAdvance
    /\ UNCHANGED <<sd_enabled, sd_flag, sd_timer, sd_called>>

(***************************************************************************)
(* ScreenCapture and its deny-list of window titles                        *)
(***************************************************************************)
\* the characters titles are made of: one letter in both cases and another
TitleChars == {"a", "B"}

\* the window titles the desktop may show, the empty one included
Titles == UNION {[1..n -> TitleChars] : n \in 0..MaxTitle}

\* the names a configuration may deny: an application named in lower case
\* and a window named in mixed case
AppNames == {<<"b">>}
WindowNames == {<<"a", "B">>}

\* str.lower() of one character and of a string
LowerChar(c) == IF c = "A" THEN "a" ELSE IF c = "B" THEN "b" ELSE c
Lower(str) == [i \in 1..Len(str) |-> LowerChar(str[i])]

\* Python's `sub in str` on strings: sub occurs in str as a substring
Contains(sub, str) ==
    \E k \in 0..Len(str) :
      /\ k + Len(sub) <= Len(str)
      /\ \A i \in 1..Len(sub) : str[k + i] = sub[i]

\* the title names an entry of the deny-list, whatever the case of either
TitleDenied(title) ==
    \E name \in pv_excluded_apps \cup pv_excluded_windows :
      Contains(Lower(name), Lower(title))

\* ScreenCapture.__init__ reads both lists (capture.py:40-41); nothing has
\* been checked yet
PrivacyInit ==
    /\ pv_excluded_apps \in SUBSET AppNames
    /\ pv_excluded_windows \in SUBSET WindowNames
    /\ pv_title = <<>>
    /\ pv_startDenied = FALSE
    /\ pv_seenDenied = [t \in Loops |-> FALSE]
    /\ pv_skipped = FALSE
    /\ pv_leak = FALSE

PrivacyIdle ==
    /\ PrivacyInit
    /\ pv_excluded_apps = {}
    /\ pv_excluded_windows = {}

\* _get_active_window_title (capture.py:49-56): the title of the foreground
\* window, or "" when win32gui cannot be imported or raises
ScreenCapture_get_active_window_title(ok) ==
    IF ok THEN pv_title ELSE <<>>

\* a deny-list check that was made once, when start() was called
ScreenCapture_should_skip_captureAtStart(title) ==
    pv_startDenied

\* _should_skip_capture (capture.py:58-72) on the title just read: it is
\* put in lower case, and each entry of excluded_apps and then of
\* excluded_windows is looked for in it, in lower case
ScreenCapture_should_skip_capture(title) ==
    LET lowered == Lower(title) IN
      \/ \E app \in pv_excluded_apps : Contains(Lower(app), lowered)
      \/ \E window \in pv_excluded_windows : Contains(Lower(window), lowered)

\* the user brings another window to the front
Privacy_focus(title) ==
    /\ title # pv_title
    /\ pv_title' = title
    /\ UNCHANGED <<pv_excluded_apps, pv_excluded_windows, pv_startDenied,
                   pv_seenDenied, pv_skipped, pv_leak>>

\* ScreenCapture.start() (capture.py:133-145)
Privacy_start ==
    /\ ScreenCapture_start
    /\ pv_startDenied' = TitleDenied(pv_title)
    /\ UNCHANGED <<pv_excluded_apps, pv_excluded_windows, pv_title,
                   pv_seenDenied, pv_skipped, pv_leak>>

\* _capture_loop: if self.is_paused or self._should_skip_capture()
\* (capture.py:89-91), the skip being what _should_skip_capture gives for
\* the title it reads in this pass
Privacy_flag(t) ==
    /\ ScreenLoopFlag(t)
    /\ \E ok \in BOOLEAN :
         LET title == ScreenCapture_get_active_window_title(ok)
             skip == ScreenCapture_should_skip_capture(title)
         IN /\ pr_pc'[t] = IF pr_paused \/ skip THEN "sleep" ELSE "capture"
            /\ pv_seenDenied' = [pv_seenDenied EXCEPT ![t] = TitleDenied(title)]
            /\ pv_skipped' = (pv_skipped \/ (~pr_paused /\ skip))
    /\ UNCHANGED <<pv_excluded_apps, pv_excluded_windows, pv_title,
                   pv_startDenied, pv_leak>>

\* _capture_loop: grab, save and hand over (capture.py:94-103)
Privacy_capture(t) ==
    /\ ScreenLoopCapture(t)
    /\ pv_leak' = (pv_leak \/ (pr_enq' # pr_enq /\ pv_seenDenied[t]))
    /\ UNCHANGED <<pv_excluded_apps, pv_excluded_windows, pv_title,
                   pv_startDenied, pv_seenDenied, pv_skipped>>

(***************************************************************************)
(* PowerMonitor._message_loop: creating the window and registering for     *)
(* session notifications                                                   *)
(***************************************************************************)
BindIdle ==
    /\ bn_bind = "none"
    /\ bn_thread = "none"
    /\ bn_logged = FALSE

\* Assistant.start(): the next start() (main.py:260-275); PowerMonitor.start()
\* sets the flag, starts the _message_loop thread and returns
\* (power_monitor.py:116-123)
Bind_startStep ==
    /\ Assistant_startStep
    /\ IF as_pm' /\ ~as_pm
       THEN bn_bind' = "pending" /\ bn_thread' = "loop"
       ELSE UNCHANGED <<bn_bind, bn_thread>>
    /\ UNCHANGED bn_logged

\* _message_loop up to its while loop (power_monitor.py:86-104): the window
\* class is registered, the window created and the session notification
\* registered. A step that raises is caught by the except of the method,
\* logged, and the thread ends (power_monitor.py:113-114); a step whose
\* failure is only a returned zero leaves the thread in its loop with no
\* window that could receive a message
Bind_message_loop(ok, raised) ==
    /\ bn_bind = "pending"
    /\ bn_bind' = IF ok THEN "bound" ELSE "failed"
    /\ bn_thread' = IF ~ok /\ raised THEN "exited" ELSE bn_thread
    /\ bn_logged' = (~ok /\ raised)
    /\ UNCHANGED asVars

\* a message is dispatched whether or not a window exists
Bind_dispatchUnbound(e) ==
    /\ PowerMonitor_dispatch(e)
    /\ UNCHANGED bnVars

\* _message_loop: GetMessageW / DispatchMessageW hand a message of the
\* window to _window_proc (power_monitor.py:108-111), which needs the
\* window and its registration
Bind_dispatch(e) ==
    /\ bn_bind = "bound"
    /\ bn_thread = "loop"
    /\ PowerMonitor_dispatch(e)
    /\ UNCHANGED bnVars

(***************************************************************************)
(* Lock/Unlock and Sleep/Wake messages that overlap                        *)
(***************************************************************************)
OverlapIdle ==
    /\ ov_locked = FALSE
    /\ ov_asleep = FALSE
    /\ ov_lockHandled = FALSE
    /\ ov_sleepHandled = FALSE

\* the message e can arrive: a session is locked when unlocked and unlocked
\* when locked, a machine suspended when awake and resumed when suspended
OverlapCanArrive(e) ==
    /\ e = "on_lock" => ~ov_locked
    /\ e = "on_unlock" => ov_locked
    /\ e = "on_sleep" => ~ov_asleep
    /\ e = "on_wake" => ov_asleep

\* _window_proc receives the message e (power_monitor.py:51-74)
Overlap_dispatch(e) ==
    /\ OverlapCanArrive(e)
    /\ PowerMonitor_dispatch(e)
    /\ ov_locked' = IF e = "on_lock" THEN TRUE
                    ELSE IF e = "on_unlock" THEN FALSE ELSE ov_locked
    /\ ov_asleep' = IF e = "on_sleep" THEN TRUE
                    ELSE IF e = "on_wake" THEN FALSE ELSE ov_asleep
    /\ ov_lockHandled' = IF e = "on_unlock" THEN FALSE ELSE ov_lockHandled
    /\ ov_sleepHandled' = IF e = "on_wake" THEN FALSE ELSE ov_sleepHandled

\* the next pause() or resume() of the handler that is running
\* (main.py:188-222); after its last one the handler has returned
Overlap_handlerStep ==
    /\ Assistant_handlerStep
    /\ ov_lockHandled' = (ov_lockHandled \/ (as_ev = "on_lock" /\ as_ev' = "idle"))
    /\ ov_sleepHandled' = (ov_sleepHandled \/ (as_ev = "on_sleep" /\ as_ev' = "idle"))
    /\ UNCHANGED <<ov_locked, ov_asleep>>

(***************************************************************************)
(* A Capture Producer after its stop() has returned                        *)
(***************************************************************************)
AfterStopIdle ==
    /\ af_returned = FALSE
    /\ af_enq = 0
    /\ af_log = 0

\* the step is the one in which stop() returns: ScreenCapture.stop() from
\* its join or its is_running test (capture.py:149-156), KeyboardRecorder
\* .stop() from save_buffer (recorder.py:132-133)
AfterStopReturns ==
    /\ pr_stopped' /\ pr_pc'[Caller] = "idle"
    /\ ~pr_stopped \/ pr_pc[Caller] # "idle"

\* what the Producer has written and handed over is noted when stop()
\* returns
AfterStopObserve ==
    IF AfterStopReturns
    THEN /\ af_returned' = TRUE
         /\ af_enq' = pr_enq'
         /\ af_log' = Len(pr_log')
    ELSE UNCHANGED afVars

(***************************************************************************)
(* Loop threads whose initialisation raises                                *)
(***************************************************************************)
InitFailIdle ==
    /\ if_failed = {}
    /\ if_refused = {}

\* _capture_loop: mss.mss() or the choice of the monitor raises
\* (capture.py:78-85); both are outside the try of the loop body
\* (capture.py:88), so the exception leaves _capture_loop and the thread
\* ends; is_running is not touched
ScreenLoopEnterFails(t) ==
    /\ pr_kind = "screen"
    /\ pr_pc[t] = "init"
    /\ pr_pc' = [pr_pc EXCEPT ![t] = "exited"]
    /\ UNCHANGED <<pr_kind, pr_running, pr_paused, pr_listeners, pr_buffer,
                   pr_key, pr_nextKey, pr_seg, pr_log, pr_enq, pr_inPause,
                   pr_keysInPause, pr_stopped, pr_again>>

\* _worker: get_openrouter_client() raises (analyzer.py:47) when the
\* constructor of the client does (openrouter_client.py:43-63); the call is
\* before the while loop and outside its try (analyzer.py:49-50), so the
\* thread ends; _is_running is not touched
WorkerClientFails ==
    /\ wk_thread = "init"
    /\ wk_thread' = "exited"
    /\ UNCHANGED <<wk_kind, wk_backup, wk_is_running, wk_queue, wk_item,
                   wk_dur, wk_file, wk_disk, wk_analysed, wk_failed, wk_done,
                   wk_next, wk_stop, wk_joinLeft, wk_stopSnap, wk_stopAlive,
                   wk_stopAt, wk_timedOut, wk_retAt, wk_exitAt>>

\* ScreenCapture.start() (capture.py:133-145), noting a call that returns
\* False on the flag when there is no loop thread
InitFail_startProducer ==
    /\ ScreenCapture_start
    /\ if_refused' = IF pr_running /\ LiveLoops = {}
                     THEN if_refused \cup {"producer"} ELSE if_refused
    /\ UNCHANGED <<wkVars, if_failed>>

\* ScreenAnalyzer.start() (analyzer.py:98-106), noting a call that returns
\* on the flag when there is no worker thread
InitFail_startWorker ==
    /\ Worker_start
    /\ if_refused' = IF wk_is_running /\ ~WorkerAlive
                     THEN if_refused \cup {"worker"} ELSE if_refused
    /\ UNCHANGED <<prVars, if_failed>>

\* the capture thread ends in its initialisation
InitFail_producerFails(t) ==
    /\ ScreenLoopEnterFails(t)
    /\ if_failed' = if_failed \cup {"producer"}
    /\ UNCHANGED <<wkVars, if_refused>>

\* the worker thread ends in its initialisation
InitFail_workerFails ==
    /\ WorkerClientFails
    /\ if_failed' = if_failed \cup {"worker"}
    /\ UNCHANGED <<prVars, if_refused>>

(***************************************************************************)
(* TaskScheduler started again after stop(): its polling-loop threads      *)
(***************************************************************************)
PollingLoops == 1..MaxPollingLoops

\* __init__ (scheduler.py:18-27): not running, no thread, no job
PollingIdle ==
    /\ pl_is_running = FALSE
    /\ pl_jobs = [n \in Triggers |-> 0]
    /\ pl_due = {}
    /\ pl_dues = 0
    /\ pl_pc = [t \in PollingLoops |-> "none"]
    /\ pl_todo = [t \in PollingLoops |-> <<>>]
    /\ pl_thread = 0
    /\ pl_stop = "idle"
    /\ pl_returned = FALSE
    /\ pl_timedOut = FALSE
    /\ pl_late = FALSE

\* the polling-loop threads that have been started and have not ended
PollingLive == {t \in PollingLoops : pl_pc[t] \notin {"none", "exited"}}

\* threading.Thread(...): the next thread of this object
PollingNew == CHOOSE t \in PollingLoops :
                 pl_pc[t] = "none" /\ \A u \in PollingLoops : u < t => pl_pc[u] # "none"

\* the due jobs in the order run_pending() runs them
PollingRunnable ==
    (IF "cleanup" \in pl_due /\ pl_jobs["cleanup"] > 0
     THEN <<"cleanup">> ELSE <<>>)
    \o (IF "summary" \in pl_due /\ pl_jobs["summary"] > 0
        THEN <<"summary">> ELSE <<>>)

\* start() (scheduler.py:64-79): nothing when running; else one job per
\* trigger is registered, the flag set and a new thread started
Polling_start ==
    /\ pl_stop = "idle"
    /\ IF pl_is_running
       THEN UNCHANGED <<pl_jobs, pl_is_running, pl_pc, pl_thread, pl_returned>>
       ELSE /\ \E t \in PollingLoops : pl_pc[t] = "none"
            /\ pl_jobs' = [n \in Triggers |-> pl_jobs[n] + 1]
            /\ pl_is_running' = TRUE
            /\ pl_pc' = [pl_pc EXCEPT ![PollingNew] = "test"]
            /\ pl_thread' = PollingNew
            /\ pl_returned' = FALSE
    /\ UNCHANGED <<pl_due, pl_dues, pl_todo, pl_stop, pl_timedOut, pl_late>>

\* stop() up to the join (scheduler.py:81-87): the flag is cleared and
\* schedule.clear() drops every job; with no thread stop() returns
Polling_stop ==
    /\ pl_stop = "idle"
    /\ pl_is_running' = FALSE
    /\ pl_jobs' = [n \in Triggers |-> 0]
    /\ pl_due' = {}
    /\ IF pl_thread = 0
       THEN pl_returned' = TRUE /\ UNCHANGED pl_stop
       ELSE pl_stop' = "joining" /\ UNCHANGED pl_returned
    /\ UNCHANGED <<pl_dues, pl_pc, pl_todo, pl_thread, pl_timedOut, pl_late>>

\* stop(): self._thread.join(timeout=5) returns (scheduler.py:87): the
\* thread has ended, or the five seconds have passed while it is inside a
\* callback
Polling_joined ==
    /\ pl_stop = "joining"
    /\ pl_pc[pl_thread] \in {"exited", "callback"}
    /\ pl_stop' = "idle"
    /\ pl_returned' = TRUE
    /\ pl_timedOut' = (pl_timedOut \/ pl_pc[pl_thread] # "exited")
    /\ UNCHANGED <<pl_is_running, pl_jobs, pl_due, pl_dues, pl_pc, pl_todo,
                   pl_thread, pl_late>>

\* the time of day of trigger n comes: its job is due
Polling_due(n) ==
    /\ pl_dues < MaxDue
    /\ pl_jobs[n] > 0
    /\ n \notin pl_due
    /\ pl_due' = pl_due \cup {n}
    /\ pl_dues' = pl_dues + 1
    /\ UNCHANGED <<pl_is_running, pl_jobs, pl_pc, pl_todo, pl_thread, pl_stop,
                   pl_returned, pl_timedOut, pl_late>>

\* _run_scheduler: while self._is_running (scheduler.py:38)
Polling_test(t) ==
    /\ pl_pc[t] = "test"
    /\ pl_pc' = [pl_pc EXCEPT ![t] = IF pl_is_running THEN "pending" ELSE "exited"]
    /\ UNCHANGED <<pl_is_running, pl_jobs, pl_due, pl_dues, pl_todo, pl_thread,
                   pl_stop, pl_returned, pl_timedOut, pl_late>>

\* schedule.run_pending() (scheduler.py:39) collects the jobs that are due
\* and then runs them one after the other
Polling_run_pending(t) ==
    /\ pl_pc[t] = "pending"
    /\ pl_todo' = [pl_todo EXCEPT ![t] = PollingRunnable]
    /\ pl_pc' = [pl_pc EXCEPT ![t] = IF PollingRunnable = <<>> THEN "sleep" ELSE "run"]
    /\ UNCHANGED <<pl_is_running, pl_jobs, pl_due, pl_dues, pl_thread, pl_stop,
                   pl_returned, pl_timedOut, pl_late>>

\* run_pending() calls the next job it collected: _trigger_daily_summary or
\* _trigger_cleanup starts (scheduler.py:44-62)
Polling_callbackStart(t) ==
    /\ pl_pc[t] = "run"
    /\ pl_pc' = [pl_pc EXCEPT ![t] = "callback"]
    /\ pl_late' = (pl_late \/ pl_returned)
    /\ UNCHANGED <<pl_is_running, pl_jobs, pl_due, pl_dues, pl_todo, pl_thread,
                   pl_stop, pl_returned, pl_timedOut>>

\* the callback returns; the job is set to its next day and run_pending()
\* goes on with the jobs it collected
Polling_callbackEnd(t) ==
    /\ pl_pc[t] = "callback"
    /\ pl_due' = pl_due \ {Head(pl_todo[t])}
    /\ pl_todo' = [pl_todo EXCEPT ![t] = Tail(@)]
    /\ pl_pc' = [pl_pc EXCEPT ![t] = IF Tail(pl_todo[t]) = <<>> THEN "sleep" ELSE "run"]
    /\ UNCHANGED <<pl_is_running, pl_jobs, pl_dues, pl_thread, pl_stop,
                   pl_returned, pl_timedOut, pl_late>>

\* _run_scheduler: time.sleep(1) returns (scheduler.py:40)
Polling_sleep(t) ==
    /\ pl_pc[t] = "sleep"
    /\ pl_pc' = [pl_pc EXCEPT ![t] = "test"]
    /\ UNCHANGED <<pl_is_running, pl_jobs, pl_due, pl_dues, pl_todo, pl_thread,
                   pl_stop, pl_returned, pl_timedOut, pl_late>>

(***************************************************************************)
(* Specifications                                                          *)
(***************************************************************************)
\* a Worker as constructed, for the specifications that do not move it
WorkerIdle == WorkerInit /\ wk_kind = "screen" /\ wk_backup = FALSE

InitWorker ==
    /\ WorkerInit
    /\ SchedulerIdle
    /\ ProducerIdle
    /\ AssistantIdle
    /\ StreamIdle
    /\ ApiIdle
    /\ WorkersIdle
    /\ PowerIdle
    /\ TriggersIdle
    /\ SummaryIdle
    /\ CaptureIdle
    /\ ArtifactsIdle
    /\ ShutdownIdle
    /\ PrivacyIdle
    /\ BindIdle
    /\ OverlapIdle
    /\ AfterStopIdle
    /\ InitFailIdle
    /\ PollingIdle

NextWorker ==
    \/ Worker_start /\ UNCHANGED notWk
    \/ Worker_add_to_queue /\ UNCHANGED notWk
    \/ WorkerClient /\ UNCHANGED notWk
    \/ WorkerLoop /\ UNCHANGED notWk
    \/ WorkerGet /\ UNCHANGED notWk
    \/ WorkerGetEmpty /\ UNCHANGED notWk
    \/ WorkerRead /\ UNCHANGED notWk
    \/ WorkerTick /\ UNCHANGED notWk
    \/ WorkerAnalysisReturns /\ UNCHANGED notWk
    \/ WorkerAnalysisRaises /\ UNCHANGED notWk
    \/ WorkerSave /\ UNCHANGED notWk
    \/ WorkerDelete /\ UNCHANGED notWk
    \/ Worker_stop /\ UNCHANGED notWk
    \/ Worker_stopJoined /\ UNCHANGED notWk

SpecWorker == InitWorker /\ [][NextWorker]_vars

\* a step of the worker thread, which the platform keeps scheduling while
\* it has one to take; time passes while it waits in an analysis call
WorkerThreadStep ==
    \/ WorkerClient /\ UNCHANGED notWk
    \/ WorkerLoop /\ UNCHANGED notWk
    \/ WorkerGet /\ UNCHANGED notWk
    \/ WorkerGetEmpty /\ UNCHANGED notWk
    \/ WorkerRead /\ UNCHANGED notWk
    \/ WorkerTick /\ UNCHANGED notWk
    \/ WorkerAnalysisReturns /\ UNCHANGED notWk
    \/ WorkerAnalysisRaises /\ UNCHANGED notWk
    \/ WorkerSave /\ UNCHANGED notWk
    \/ WorkerDelete /\ UNCHANGED notWk

\* the Worker with a thread that keeps running: every get returns within
\* its timeout and every analysis call returns or raises
SpecWorkerLive == InitWorker /\ [][NextWorker]_vars /\ WF_vars(WorkerThreadStep)

InitSched ==
    /\ SchedulerInit
    /\ WorkerIdle
    /\ ProducerIdle
    /\ AssistantIdle
    /\ StreamIdle
    /\ ApiIdle
    /\ WorkersIdle
    /\ PowerIdle
    /\ TriggersIdle
    /\ SummaryIdle
    /\ CaptureIdle
    /\ ArtifactsIdle
    /\ ShutdownIdle
    /\ PrivacyIdle
    /\ BindIdle
    /\ OverlapIdle
    /\ AfterStopIdle
    /\ InitFailIdle
    /\ PollingIdle

NextSched ==
    \/ Scheduler_start /\ UNCHANGED notSch
    \/ SchedulerLoop /\ UNCHANGED notSch
    \/ SchedulerRunPending /\ UNCHANGED notSch
    \/ SchedulerSleep /\ UNCHANGED notSch
    \/ SchedulerClock /\ UNCHANGED notSch
    \/ Scheduler_stop /\ UNCHANGED notSch

SpecSched == InitSched /\ [][NextSched]_vars

InitProducer ==
    /\ ProducerInit
    /\ WorkerIdle
    /\ SchedulerIdle
    /\ AssistantIdle
    /\ StreamIdle
    /\ ApiIdle
    /\ WorkersIdle
    /\ PowerIdle
    /\ TriggersIdle
    /\ SummaryIdle
    /\ CaptureIdle
    /\ ArtifactsIdle
    /\ ShutdownIdle
    /\ PrivacyIdle
    /\ BindIdle
    /\ OverlapIdle
    /\ AfterStopIdle
    /\ InitFailIdle
    /\ PollingIdle

\* Assistant.start() starts the Producer and never after stop()
\* (main.py:262-271)
NextProducer ==
    \/ (~pr_stopped /\ ScreenCapture_start) /\ UNCHANGED notPr
    \/ ScreenCapture_stop /\ UNCHANGED notPr
    \/ ScreenCapture_stopJoined /\ UNCHANGED notPr
    \/ (~pr_stopped /\ KeyboardRecorder_start) /\ UNCHANGED notPr
    \/ KeyboardRecorder_stop /\ UNCHANGED notPr
    \/ Producer_pause /\ UNCHANGED notPr
    \/ Producer_resume /\ UNCHANGED notPr
    \/ KeyboardOnPress /\ UNCHANGED notPr
    \/ KeyboardAppend /\ UNCHANGED notPr
    \/ \E t \in Loops : ScreenLoopEnter(t) /\ UNCHANGED notPr
    \/ \E t \in Loops : ScreenLoopTest(t) /\ UNCHANGED notPr
    \/ \E t \in Loops : ScreenLoopFlag(t) /\ UNCHANGED notPr
    \/ \E t \in Loops : ScreenLoopCapture(t) /\ UNCHANGED notPr
    \/ \E t \in Loops : ScreenLoopSleep(t) /\ UNCHANGED notPr
    \/ \E t \in Loops : KeyboardLoopTest(t) /\ UNCHANGED notPr
    \/ \E t \in Loops : KeyboardLoopSleep(t) /\ UNCHANGED notPr
    \/ \E t \in Loops : KeyboardLoopFlag(t) /\ UNCHANGED notPr
    \/ \E t \in 0..MaxLoops : KeyboardSaveTake(t) /\ UNCHANGED notPr
    \/ \E t \in 0..MaxLoops : KeyboardSaveWrite(t) /\ UNCHANGED notPr

SpecProducer == InitProducer /\ [][NextProducer]_vars

InitAssistant ==
    /\ AssistantInit
    /\ WorkerIdle
    /\ SchedulerIdle
    /\ ProducerIdle
    /\ StreamIdle
    /\ ApiIdle
    /\ WorkersIdle
    /\ PowerIdle
    /\ TriggersIdle
    /\ SummaryIdle
    /\ CaptureIdle
    /\ ArtifactsIdle
    /\ ShutdownIdle
    /\ PrivacyIdle
    /\ BindIdle
    /\ OverlapIdle
    /\ AfterStopIdle
    /\ InitFailIdle
    /\ PollingIdle

NextAssistant ==
    \/ Assistant_setup /\ UNCHANGED notAs
    \/ Assistant_startStep /\ UNCHANGED notAs
    \/ Assistant_signal /\ UNCHANGED notAs
    \/ Assistant_stopStep /\ UNCHANGED notAs
    \/ \E e \in Events :
          PowerMonitor_dispatch(e) /\ UNCHANGED notAs
    \/ Assistant_handlerStep /\ UNCHANGED notAs
    \/ \E s \in Streams :
          Assistant_capture(s) /\ UNCHANGED notAs
    \/ \E s \in Streams :
          Assistant_process(s) /\ UNCHANGED notAs
    \/ \E s \in Streams :
          Assistant_workerExit(s) /\ UNCHANGED notAs

SpecAssistant == InitAssistant /\ [][NextAssistant]_vars

InitStream ==
    /\ ProducerInit
    /\ StreamIdle
    /\ WorkerIdle
    /\ SchedulerIdle
    /\ AssistantIdle
    /\ ApiIdle
    /\ WorkersIdle
    /\ PowerIdle
    /\ TriggersIdle
    /\ SummaryIdle
    /\ CaptureIdle
    /\ ArtifactsIdle
    /\ ShutdownIdle
    /\ PrivacyIdle
    /\ BindIdle
    /\ OverlapIdle
    /\ AfterStopIdle
    /\ InitFailIdle
    /\ PollingIdle

\* the Assistant starts the Worker, then the Producer; power events pause and
\* resume the running Producer; stop() stops the Producer, then the Worker
NextStream ==
    \/ Stream_workerStart /\ UNCHANGED <<prVars, notSt>>
    \/ (st_worker = "started" /\ ~pr_stopped /\ ScreenCapture_start)
          /\ UNCHANGED <<stVars, notSt>>
    \/ (st_worker = "started" /\ ~pr_stopped /\ KeyboardRecorder_start)
          /\ UNCHANGED <<stVars, notSt>>
    \/ (pr_running /\ ScreenCapture_stop) /\ UNCHANGED <<stVars, notSt>>
    \/ ScreenCapture_stopJoined /\ UNCHANGED <<stVars, notSt>>
    \/ (pr_running /\ KeyboardRecorder_stop) /\ UNCHANGED <<stVars, notSt>>
    \/ Stream_workerStop /\ UNCHANGED <<prVars, notSt>>
    \/ (pr_running /\ Producer_pause) /\ UNCHANGED <<stVars, notSt>>
    \/ (pr_running /\ Producer_resume) /\ UNCHANGED <<stVars, notSt>>
    \/ KeyboardOnPress /\ UNCHANGED <<stVars, notSt>>
    \/ KeyboardAppend /\ UNCHANGED <<stVars, notSt>>
    \/ \E t \in Loops : ScreenLoopEnter(t) /\ UNCHANGED <<stVars, notSt>>
    \/ \E t \in Loops : ScreenLoopTest(t) /\ UNCHANGED <<stVars, notSt>>
    \/ \E t \in Loops : ScreenLoopFlag(t) /\ UNCHANGED <<stVars, notSt>>
    \/ \E t \in Loops : ScreenLoopCapture(t) /\ Stream_callback
          /\ UNCHANGED notSt
    \/ \E t \in Loops : ScreenLoopSleep(t) /\ UNCHANGED <<stVars, notSt>>
    \/ \E t \in Loops : KeyboardLoopTest(t) /\ UNCHANGED <<stVars, notSt>>
    \/ \E t \in Loops : KeyboardLoopSleep(t) /\ UNCHANGED <<stVars, notSt>>
    \/ \E t \in Loops : KeyboardLoopFlag(t) /\ UNCHANGED <<stVars, notSt>>
    \/ \E t \in 0..MaxLoops : KeyboardSaveTake(t) /\ UNCHANGED <<stVars, notSt>>
    \/ \E t \in 0..MaxLoops : KeyboardSaveWrite(t) /\ Stream_callback
          /\ UNCHANGED notSt

SpecStream == InitStream /\ [][NextStream]_vars

InitApi ==
    /\ AssistantInit
    /\ ApiIdle
    /\ WorkerIdle
    /\ SchedulerIdle
    /\ ProducerIdle
    /\ StreamIdle
    /\ WorkersIdle
    /\ PowerIdle
    /\ TriggersIdle
    /\ SummaryIdle
    /\ CaptureIdle
    /\ ArtifactsIdle
    /\ ShutdownIdle
    /\ PrivacyIdle
    /\ BindIdle
    /\ OverlapIdle
    /\ AfterStopIdle
    /\ InitFailIdle
    /\ PollingIdle

NextApi ==
    \/ Assistant_setup /\ ap_setups' = ap_setups + 1
          /\ UNCHANGED <<ap_loops, ap_workers, ap_raised, ap_snap,
                         ap_stopCalls, notAp>>
    \/ Assistant_startStep /\ Api_threads
          /\ UNCHANGED <<ap_setups, ap_raised, ap_snap, ap_stopCalls, notAp>>
    \/ Assistant_startAgain /\ UNCHANGED notAp
    \/ Assistant_signal /\ UNCHANGED <<apVars, notAp>>
    \/ Assistant_stopStep /\ Api_threads
          /\ UNCHANGED <<ap_setups, ap_raised, ap_snap, ap_stopCalls, notAp>>
    \/ Assistant_stopNew /\ UNCHANGED notAp
    \/ Assistant_stopAgain /\ UNCHANGED notAp

SpecApi == InitApi /\ [][NextApi]_vars

InitWorkers ==
    /\ WorkersIdle
    /\ WorkerIdle
    /\ SchedulerIdle
    /\ ProducerIdle
    /\ AssistantIdle
    /\ StreamIdle
    /\ ApiIdle
    /\ PowerIdle
    /\ TriggersIdle
    /\ SummaryIdle
    /\ CaptureIdle
    /\ ArtifactsIdle
    /\ ShutdownIdle
    /\ PrivacyIdle
    /\ BindIdle
    /\ OverlapIdle
    /\ AfterStopIdle
    /\ InitFailIdle
    /\ PollingIdle

NextWorkers ==
    \/ Workers_start /\ UNCHANGED notRw
    \/ Workers_stop /\ UNCHANGED notRw
    \/ Workers_stopJoined /\ UNCHANGED notRw
    \/ Workers_add_to_queue /\ UNCHANGED notRw
    \/ \E t \in Threads : WorkersLoop(t) /\ UNCHANGED notRw
    \/ \E t \in Threads : WorkersGet(t) /\ UNCHANGED notRw
    \/ \E t \in Threads : WorkersAnalysed(t) /\ UNCHANGED notRw

SpecWorkers == InitWorkers /\ [][NextWorkers]_vars

InitProducers ==
    /\ ProducerInit
    /\ WorkerIdle
    /\ SchedulerIdle
    /\ AssistantIdle
    /\ StreamIdle
    /\ ApiIdle
    /\ WorkersIdle
    /\ PowerIdle
    /\ TriggersIdle
    /\ SummaryIdle
    /\ CaptureIdle
    /\ ArtifactsIdle
    /\ ShutdownIdle
    /\ PrivacyIdle
    /\ BindIdle
    /\ OverlapIdle
    /\ AfterStopIdle
    /\ InitFailIdle
    /\ PollingIdle

\* a Producer started and stopped by one caller, any number of times, each
\* call after the one before has returned;
\* ScreenCapture.stop() returns when its loop has ended or, on the timeout of
\* its join, while the loop is in its sleep of one interval (30 s by default,
\* against 10 s for the join)
NextProducers ==
    \/ (pr_pc[Caller] = "idle" /\ ScreenCapture_start) /\ UNCHANGED notPr
    \/ ScreenCapture_stop /\ UNCHANGED notPr
    \/ ((\A t \in LiveLoops : pr_pc[t] = "sleep") /\ ScreenCapture_stopJoined)
          /\ UNCHANGED notPr
    \/ (pr_pc[Caller] = "idle" /\ KeyboardRecorder_start)
          /\ UNCHANGED notPr
    \/ KeyboardRecorder_stop /\ UNCHANGED notPr
    \/ KeyboardOnPress /\ UNCHANGED notPr
    \/ KeyboardAppend /\ UNCHANGED notPr
    \/ \E t \in Loops : ScreenLoopEnter(t) /\ UNCHANGED notPr
    \/ \E t \in Loops : ScreenLoopTest(t) /\ UNCHANGED notPr
    \/ \E t \in Loops : ScreenLoopFlag(t) /\ UNCHANGED notPr
    \/ \E t \in Loops : ScreenLoopCapture(t) /\ UNCHANGED notPr
    \/ \E t \in Loops : ScreenLoopSleep(t) /\ UNCHANGED notPr
    \/ \E t \in Loops : KeyboardLoopTest(t) /\ UNCHANGED notPr
    \/ \E t \in Loops : KeyboardLoopSleep(t) /\ UNCHANGED notPr
    \/ \E t \in Loops : KeyboardLoopFlag(t) /\ UNCHANGED notPr
    \/ \E t \in 0..MaxLoops : KeyboardSaveTake(t) /\ UNCHANGED notPr
    \/ \E t \in 0..MaxLoops : KeyboardSaveWrite(t) /\ UNCHANGED notPr

SpecProducers == InitProducers /\ [][NextProducers]_vars

\* The PowerMonitor used through its API: listeners are registered, the
\* monitor is started, window messages arrive, the monitor is stopped.
InitPower ==
    /\ pm_callbacks = [e \in Events |-> "none"]
    /\ pm_registered = [e \in Events |-> <<>>]
    /\ pm_pause_on_lock \in BOOLEAN
    /\ pm_is_running = FALSE
    /\ pm_thread = "none"
    /\ pm_event = "none"
    /\ pm_invoked = <<>>
    /\ pm_expected = <<>>
    /\ pm_dispatched = 0
    /\ pm_raises = 0
    /\ pm_logged = 0
    /\ pm_afterRaise = FALSE
    /\ WorkerIdle
    /\ SchedulerIdle
    /\ ProducerIdle
    /\ AssistantIdle
    /\ StreamIdle
    /\ ApiIdle
    /\ WorkersIdle
    /\ TriggersIdle
    /\ SummaryIdle
    /\ CaptureIdle
    /\ ArtifactsIdle
    /\ ShutdownIdle
    /\ PrivacyIdle
    /\ BindIdle
    /\ OverlapIdle
    /\ AfterStopIdle
    /\ InitFailIdle
    /\ PollingIdle

NextPower ==
    \/ (\E e \in Events, l \in Listeners : PowerMonitor_register_callback(e, l))
           /\ UNCHANGED notPm
    \/ (pm_thread = "none" /\ PowerMonitor_start) /\ UNCHANGED notPm
    \/ (pm_is_running /\ PowerMonitor_stop) /\ UNCHANGED notPm
    \/ PowerMonitor_loopExit /\ UNCHANGED notPm
    \/ (\E e \in Events, raises \in BOOLEAN : PowerMonitor_window_proc(e, raises))
           /\ UNCHANGED notPm

SpecPower == InitPower /\ [][NextPower]_vars

\* The TaskScheduler with callbacks registered, some of which raise, and
\* run_now called at any moment.
InitTriggers ==
    /\ SchedulerIdle
    /\ TriggersIdle
    /\ WorkerIdle
    /\ ProducerIdle
    /\ AssistantIdle
    /\ StreamIdle
    /\ ApiIdle
    /\ WorkersIdle
    /\ PowerIdle
    /\ SummaryIdle
    /\ CaptureIdle
    /\ ArtifactsIdle
    /\ ShutdownIdle
    /\ PrivacyIdle
    /\ BindIdle
    /\ OverlapIdle
    /\ AfterStopIdle
    /\ InitFailIdle
    /\ PollingIdle

NextTriggers ==
    \/ (\E name \in CallbackNames : TaskScheduler_register_callback(name))
           /\ UNCHANGED schVars /\ UNCHANGED notTg
    \/ Scheduler_start /\ UNCHANGED tgVars /\ UNCHANGED notTg
    \/ SchedulerLoop /\ UNCHANGED tgVars /\ UNCHANGED notTg
    \/ (\E R \in SUBSET Triggers : TaskScheduler_runPending(R))
           /\ UNCHANGED notTg
    \/ SchedulerSleep /\ UNCHANGED tgVars /\ UNCHANGED notTg
    \/ SchedulerClock /\ UNCHANGED tgVars /\ UNCHANGED notTg
    \/ Scheduler_stop /\ UNCHANGED tgVars /\ UNCHANGED notTg
    \/ (\E task \in TaskNames, raises \in BOOLEAN :
            TaskScheduler_run_now(task, raises))
           /\ UNCHANGED schVars /\ UNCHANGED notTg

SpecTriggers == InitTriggers /\ [][NextTriggers]_vars

\* The daily-summary callback of an Assistant that has been set up, with
\* or without the e-mail sender and the drive manager (main.py:70-74),
\* driven by the scheduler's polling loop.
InitSummary ==
    /\ sm_email \in BOOLEAN
    /\ sm_drive \in BOOLEAN
    /\ sm_triggers = 0
    /\ sm_generated = 0
    /\ sm_sent = 0
    /\ sm_uploaded = 0
    /\ sm_raised = 0
    /\ sm_logged = 0
    /\ sm_alerts = 0
    /\ sm_escaped = FALSE
    /\ WorkerIdle
    /\ SchedulerIdle
    /\ ProducerIdle
    /\ AssistantIdle
    /\ StreamIdle
    /\ ApiIdle
    /\ WorkersIdle
    /\ PowerIdle
    /\ TriggersIdle
    /\ CaptureIdle
    /\ ArtifactsIdle
    /\ ShutdownIdle
    /\ PrivacyIdle
    /\ BindIdle
    /\ OverlapIdle
    /\ AfterStopIdle
    /\ InitFailIdle
    /\ PollingIdle

\* the polling loop of the scheduler drives the callback: a poll at which
\* the summary job is due runs _trigger_daily_summary, which calls
\* _generate_daily_summary (scheduler.py:48-50, main.py:143)
Summary_runPending ==
    /\ SchedulerRunPending
    /\ IF DueCount("summary") > 0
       THEN \E fails \in SummarySteps \cup {"none"}, exists \in BOOLEAN :
                Assistant_generate_daily_summary(fails, exists)
       ELSE UNCHANGED smVars

NextSummary ==
    \/ Scheduler_start /\ UNCHANGED smVars /\ UNCHANGED notSm
    \/ SchedulerLoop /\ UNCHANGED smVars /\ UNCHANGED notSm
    \/ Summary_runPending /\ UNCHANGED notSm
    \/ SchedulerSleep /\ UNCHANGED smVars /\ UNCHANGED notSm
    \/ Scheduler_stop /\ UNCHANGED smVars /\ UNCHANGED notSm

SpecSummary == InitSummary /\ [][NextSummary]_vars

\* One Producer as the Assistant drives it, with captures and writes that
\* may fail and the keystrokes followed from the buffer to the day log.
InitCapture ==
    /\ ProducerInit
    /\ CaptureIdle
    /\ WorkerIdle
    /\ SchedulerIdle
    /\ AssistantIdle
    /\ StreamIdle
    /\ ApiIdle
    /\ WorkersIdle
    /\ PowerIdle
    /\ TriggersIdle
    /\ SummaryIdle
    /\ ArtifactsIdle
    /\ ShutdownIdle
    /\ PrivacyIdle
    /\ BindIdle
    /\ OverlapIdle
    /\ AfterStopIdle
    /\ InitFailIdle
    /\ PollingIdle

NextCapture ==
    \/ (~pr_stopped /\ ScreenCapture_start) /\ UNCHANGED cfVars /\ UNCHANGED notCf
    \/ ScreenCapture_stop /\ UNCHANGED cfVars /\ UNCHANGED notCf
    \/ ScreenCapture_stopJoined /\ UNCHANGED cfVars /\ UNCHANGED notCf
    \/ (~pr_stopped /\ KeyboardRecorder_start) /\ UNCHANGED cfVars
           /\ UNCHANGED notCf
    \/ Capture_stop /\ UNCHANGED notCf
    \/ Producer_pause /\ UNCHANGED cfVars /\ UNCHANGED notCf
    \/ Producer_resume /\ UNCHANGED cfVars /\ UNCHANGED notCf
    \/ KeyboardOnPress /\ UNCHANGED cfVars /\ UNCHANGED notCf
    \/ KeyboardAppend /\ UNCHANGED cfVars /\ UNCHANGED notCf
    \/ \E t \in Loops : ScreenLoopEnter(t) /\ UNCHANGED cfVars /\ UNCHANGED notCf
    \/ \E t \in Loops : ScreenLoopTest(t) /\ UNCHANGED cfVars /\ UNCHANGED notCf
    \/ \E t \in Loops : ScreenLoopFlag(t) /\ UNCHANGED cfVars /\ UNCHANGED notCf
    \/ \E t \in Loops : Capture_screen(t) /\ UNCHANGED notCf
    \/ \E t \in Loops : ScreenLoopSleep(t) /\ UNCHANGED cfVars /\ UNCHANGED notCf
    \/ \E t \in Loops : KeyboardLoopTest(t) /\ UNCHANGED cfVars /\ UNCHANGED notCf
    \/ \E t \in Loops : KeyboardLoopSleep(t) /\ UNCHANGED cfVars /\ UNCHANGED notCf
    \/ \E t \in Loops : KeyboardLoopFlag(t) /\ UNCHANGED cfVars /\ UNCHANGED notCf
    \/ \E t \in 0..MaxLoops : Capture_take(t) /\ UNCHANGED notCf
    \/ \E t \in 0..MaxLoops : Capture_write(t) /\ UNCHANGED notCf

SpecCapture == InitCapture /\ [][NextCapture]_vars

\* One stream, screen or keyboard, from capture to the aggregate file, over
\* a midnight.
InitArtifacts ==
    /\ ar_kind \in {"screen", "keyboard"}
    /\ ar_day = 0
    /\ ar_next = 1
    /\ ar_dayKey = [id \in ArtifactIds |-> 0]
    /\ ar_files = [p \in ArtifactPaths |-> <<>>]
    /\ ar_queue = <<>>
    /\ ar_item = <<>>
    /\ ar_reads = <<>>
    /\ ar_results = [d \in ArtifactDays |-> <<>>]
    /\ WorkerIdle
    /\ SchedulerIdle
    /\ ProducerIdle
    /\ AssistantIdle
    /\ StreamIdle
    /\ ApiIdle
    /\ WorkersIdle
    /\ PowerIdle
    /\ TriggersIdle
    /\ SummaryIdle
    /\ CaptureIdle
    /\ ShutdownIdle
    /\ PrivacyIdle
    /\ BindIdle
    /\ OverlapIdle
    /\ AfterStopIdle
    /\ InitFailIdle
    /\ PollingIdle

NextArtifacts ==
    \/ Artifacts_midnight /\ UNCHANGED notAr
    \/ Artifacts_capture /\ UNCHANGED notAr
    \/ Artifacts_get /\ UNCHANGED notAr
    \/ Artifacts_save /\ UNCHANGED notAr
    \/ Artifacts_fail /\ UNCHANGED notAr

SpecArtifacts == InitArtifacts /\ [][NextArtifacts]_vars

InitShutdown ==
    /\ ShutdownIdle
    /\ WorkerIdle
    /\ SchedulerIdle
    /\ ProducerIdle
    /\ AssistantIdle
    /\ StreamIdle
    /\ ApiIdle
    /\ WorkersIdle
    /\ PowerIdle
    /\ TriggersIdle
    /\ SummaryIdle
    /\ CaptureIdle
    /\ ArtifactsIdle
    /\ PrivacyIdle
    /\ BindIdle
    /\ OverlapIdle
    /\ AfterStopIdle
    /\ InitFailIdle
    /\ PollingIdle

NextShutdown ==
    \/ \E enabled \in SUBSET Streams : Shutdown_start(enabled) /\ UNCHANGED notSd
    \/ \E i \in StopPositions : Shutdown_block(i) /\ UNCHANGED notSd
    \/ \E i \in StopPositions : Shutdown_exit(i) /\ UNCHANGED notSd
    \/ Shutdown_begin /\ UNCHANGED notSd
    \/ Shutdown_call /\ UNCHANGED notSd
    \/ Shutdown_tick /\ UNCHANGED notSd
    \/ Shutdown_joined /\ UNCHANGED notSd

\* the thread that runs Assistant.stop() is scheduled, and the clock of a
\* join's timeout advances; no thread of a component is required to move
FairShutdown ==
    /\ WF_vars(Shutdown_call /\ UNCHANGED notSd)
    /\ WF_vars(Shutdown_tick /\ UNCHANGED notSd)
    /\ WF_vars(Shutdown_joined /\ UNCHANGED notSd)

SpecShutdown == InitShutdown /\ [][NextShutdown]_vars /\ FairShutdown

\* ScreenCapture with a deny-list, while the active window changes.
InitPrivacy ==
    /\ ProducerInit
    /\ pr_kind = "screen"
    /\ PrivacyInit
    /\ WorkerIdle
    /\ SchedulerIdle
    /\ AssistantIdle
    /\ StreamIdle
    /\ ApiIdle
    /\ WorkersIdle
    /\ PowerIdle
    /\ TriggersIdle
    /\ SummaryIdle
    /\ CaptureIdle
    /\ ArtifactsIdle
    /\ ShutdownIdle
    /\ BindIdle
    /\ OverlapIdle
    /\ AfterStopIdle
    /\ InitFailIdle
    /\ PollingIdle

NextPrivacy ==
    \/ \E title \in Titles : Privacy_focus(title) /\ UNCHANGED prVars
                                 /\ UNCHANGED notPv
    \/ (~pr_stopped /\ Privacy_start) /\ UNCHANGED notPv
    \/ ScreenCapture_stop /\ UNCHANGED pvVars /\ UNCHANGED notPv
    \/ ScreenCapture_stopJoined /\ UNCHANGED pvVars /\ UNCHANGED notPv
    \/ Producer_pause /\ UNCHANGED pvVars /\ UNCHANGED notPv
    \/ Producer_resume /\ UNCHANGED pvVars /\ UNCHANGED notPv
    \/ \E t \in Loops : ScreenLoopEnter(t) /\ UNCHANGED pvVars /\ UNCHANGED notPv
    \/ \E t \in Loops : ScreenLoopTest(t) /\ UNCHANGED pvVars /\ UNCHANGED notPv
    \/ \E t \in Loops : Privacy_flag(t) /\ UNCHANGED notPv
    \/ \E t \in Loops : Privacy_capture(t) /\ UNCHANGED notPv
    \/ \E t \in Loops : ScreenLoopSleep(t) /\ UNCHANGED pvVars /\ UNCHANGED notPv

SpecPrivacy == InitPrivacy /\ [][NextPrivacy]_vars

\* The Assistant with a PowerMonitor whose window may fail to be created.
InitBind ==
    /\ AssistantInit
    /\ BindIdle
    /\ WorkerIdle
    /\ SchedulerIdle
    /\ ProducerIdle
    /\ StreamIdle
    /\ ApiIdle
    /\ WorkersIdle
    /\ PowerIdle
    /\ TriggersIdle
    /\ SummaryIdle
    /\ CaptureIdle
    /\ ArtifactsIdle
    /\ ShutdownIdle
    /\ PrivacyIdle
    /\ OverlapIdle
    /\ AfterStopIdle
    /\ InitFailIdle
    /\ PollingIdle

NextBind ==
    \/ Assistant_setup /\ UNCHANGED bnVars /\ UNCHANGED notBn
    \/ Bind_startStep /\ UNCHANGED notBn
    \/ \E ok, raised \in BOOLEAN : Bind_message_loop(ok, raised) /\ UNCHANGED notBn
    \/ Assistant_signal /\ UNCHANGED bnVars /\ UNCHANGED notBn
    \/ Assistant_stopStep /\ UNCHANGED bnVars /\ UNCHANGED notBn
    \/ \E e \in Events : Bind_dispatch(e) /\ UNCHANGED notBn
    \/ Assistant_handlerStep /\ UNCHANGED bnVars /\ UNCHANGED notBn
    \/ \E s \in Streams : Assistant_capture(s) /\ UNCHANGED bnVars /\ UNCHANGED notBn
    \/ \E s \in Streams : Assistant_process(s) /\ UNCHANGED bnVars /\ UNCHANGED notBn
    \/ \E s \in Streams : Assistant_workerExit(s) /\ UNCHANGED bnVars /\ UNCHANGED notBn

SpecBind == InitBind /\ [][NextBind]_vars

\* The Assistant under the messages of a desktop that locks and suspends.
InitOverlap ==
    /\ AssistantInit
    /\ OverlapIdle
    /\ WorkerIdle
    /\ SchedulerIdle
    /\ ProducerIdle
    /\ StreamIdle
    /\ ApiIdle
    /\ WorkersIdle
    /\ PowerIdle
    /\ TriggersIdle
    /\ SummaryIdle
    /\ CaptureIdle
    /\ ArtifactsIdle
    /\ ShutdownIdle
    /\ PrivacyIdle
    /\ BindIdle
    /\ AfterStopIdle
    /\ InitFailIdle
    /\ PollingIdle

NextOverlap ==
    \/ Assistant_setup /\ UNCHANGED ovVars /\ UNCHANGED notOv
    \/ Assistant_startStep /\ UNCHANGED ovVars /\ UNCHANGED notOv
    \/ Assistant_signal /\ UNCHANGED ovVars /\ UNCHANGED notOv
    \/ Assistant_stopStep /\ UNCHANGED ovVars /\ UNCHANGED notOv
    \/ \E e \in Events : Overlap_dispatch(e) /\ UNCHANGED notOv
    \/ Overlap_handlerStep /\ UNCHANGED notOv
    \/ \E s \in Streams : Assistant_capture(s) /\ UNCHANGED ovVars /\ UNCHANGED notOv
    \/ \E s \in Streams : Assistant_process(s) /\ UNCHANGED ovVars /\ UNCHANGED notOv
    \/ \E s \in Streams : Assistant_workerExit(s) /\ UNCHANGED ovVars /\ UNCHANGED notOv

SpecOverlap == InitOverlap /\ [][NextOverlap]_vars

\* A Capture Producer, started once and stopped, with its loop thread free
\* to run on after stop() has returned.
InitAfterStop ==
    /\ ProducerInit
    /\ AfterStopIdle
    /\ WorkerIdle
    /\ SchedulerIdle
    /\ AssistantIdle
    /\ StreamIdle
    /\ ApiIdle
    /\ WorkersIdle
    /\ PowerIdle
    /\ TriggersIdle
    /\ SummaryIdle
    /\ CaptureIdle
    /\ ArtifactsIdle
    /\ ShutdownIdle
    /\ PrivacyIdle
    /\ BindIdle
    /\ OverlapIdle
    /\ InitFailIdle
    /\ PollingIdle

NextAfterStop ==
    \/ (~pr_stopped /\ ScreenCapture_start) /\ AfterStopObserve /\ UNCHANGED notAf
    \/ ScreenCapture_stop /\ AfterStopObserve /\ UNCHANGED notAf
    \/ ScreenCapture_stopJoined /\ AfterStopObserve /\ UNCHANGED notAf
    \/ (~pr_stopped /\ KeyboardRecorder_start) /\ AfterStopObserve
           /\ UNCHANGED notAf
    \/ KeyboardRecorder_stop /\ AfterStopObserve /\ UNCHANGED notAf
    \/ Producer_pause /\ AfterStopObserve /\ UNCHANGED notAf
    \/ Producer_resume /\ AfterStopObserve /\ UNCHANGED notAf
    \/ KeyboardOnPress /\ AfterStopObserve /\ UNCHANGED notAf
    \/ KeyboardAppend /\ AfterStopObserve /\ UNCHANGED notAf
    \/ \E t \in Loops : ScreenLoopEnter(t) /\ AfterStopObserve /\ UNCHANGED notAf
    \/ \E t \in Loops : ScreenLoopTest(t) /\ AfterStopObserve /\ UNCHANGED notAf
    \/ \E t \in Loops : ScreenLoopFlag(t) /\ AfterStopObserve /\ UNCHANGED notAf
    \/ \E t \in Loops : ScreenLoopCapture(t) /\ AfterStopObserve /\ UNCHANGED notAf
    \/ \E t \in Loops : ScreenLoopSleep(t) /\ AfterStopObserve /\ UNCHANGED notAf
    \/ \E t \in Loops : KeyboardLoopTest(t) /\ AfterStopObserve /\ UNCHANGED notAf
    \/ \E t \in Loops : KeyboardLoopSleep(t) /\ AfterStopObserve /\ UNCHANGED notAf
    \/ \E t \in Loops : KeyboardLoopFlag(t) /\ AfterStopObserve /\ UNCHANGED notAf
    \/ \E t \in 0..MaxLoops : KeyboardSaveTake(t) /\ AfterStopObserve
           /\ UNCHANGED notAf
    \/ \E t \in 0..MaxLoops : KeyboardSaveWrite(t) /\ AfterStopObserve
           /\ UNCHANGED notAf

SpecAfterStop == InitAfterStop /\ [][NextAfterStop]_vars

\* ScreenCapture and ScreenAnalyzer, started and stopped, with loop threads
\* whose initialisation may raise. No artifact is followed.
InitInitFail ==
    /\ ProducerIdle
    /\ WorkerInit
    /\ wk_kind = "screen"
    /\ wk_backup = FALSE
    /\ InitFailIdle
    /\ SchedulerIdle
    /\ AssistantIdle
    /\ StreamIdle
    /\ ApiIdle
    /\ WorkersIdle
    /\ PowerIdle
    /\ TriggersIdle
    /\ SummaryIdle
    /\ CaptureIdle
    /\ ArtifactsIdle
    /\ ShutdownIdle
    /\ PrivacyIdle
    /\ BindIdle
    /\ OverlapIdle
    /\ AfterStopIdle
    /\ PollingIdle

NextInitFail ==
    \/ (~pr_stopped /\ InitFail_startProducer) /\ UNCHANGED notIf
    \/ InitFail_startWorker /\ UNCHANGED notIf
    \/ \E t \in Loops : InitFail_producerFails(t) /\ UNCHANGED notIf
    \/ InitFail_workerFails /\ UNCHANGED notIf
    \/ ScreenCapture_stop /\ UNCHANGED <<wkVars, ifVars>> /\ UNCHANGED notIf
    \/ ScreenCapture_stopJoined /\ UNCHANGED <<wkVars, ifVars>> /\ UNCHANGED notIf
    \/ Producer_pause /\ UNCHANGED <<wkVars, ifVars>> /\ UNCHANGED notIf
    \/ Producer_resume /\ UNCHANGED <<wkVars, ifVars>> /\ UNCHANGED notIf
    \/ \E t \in Loops : ScreenLoopEnter(t) /\ UNCHANGED <<wkVars, ifVars>>
                            /\ UNCHANGED notIf
    \/ \E t \in Loops : ScreenLoopTest(t) /\ UNCHANGED <<wkVars, ifVars>>
                            /\ UNCHANGED notIf
    \/ \E t \in Loops : ScreenLoopFlag(t) /\ UNCHANGED <<wkVars, ifVars>>
                            /\ UNCHANGED notIf
    \/ \E t \in Loops : ScreenLoopCapture(t) /\ UNCHANGED <<wkVars, ifVars>>
                            /\ UNCHANGED notIf
    \/ \E t \in Loops : ScreenLoopSleep(t) /\ UNCHANGED <<wkVars, ifVars>>
                            /\ UNCHANGED notIf
    \/ WorkerClient /\ UNCHANGED <<prVars, ifVars>> /\ UNCHANGED notIf
    \/ WorkerLoop /\ UNCHANGED <<prVars, ifVars>> /\ UNCHANGED notIf
    \/ WorkerGetEmpty /\ UNCHANGED <<prVars, ifVars>> /\ UNCHANGED notIf
    \/ Worker_stop /\ UNCHANGED <<prVars, ifVars>> /\ UNCHANGED notIf
    \/ Worker_stopJoined /\ UNCHANGED <<prVars, ifVars>> /\ UNCHANGED notIf

SpecInitFail == InitInitFail /\ [][NextInitFail]_vars

\* A TaskScheduler whose start() and stop() are called in any order.
InitPolling ==
    /\ PollingIdle
    /\ WorkerIdle
    /\ SchedulerIdle
    /\ ProducerIdle
    /\ AssistantIdle
    /\ StreamIdle
    /\ ApiIdle
    /\ WorkersIdle
    /\ PowerIdle
    /\ TriggersIdle
    /\ SummaryIdle
    /\ CaptureIdle
    /\ ArtifactsIdle
    /\ ShutdownIdle
    /\ PrivacyIdle
    /\ BindIdle
    /\ OverlapIdle
    /\ AfterStopIdle
    /\ InitFailIdle

NextPolling ==
    \/ Polling_start /\ UNCHANGED notPl
    \/ Polling_stop /\ UNCHANGED notPl
    \/ Polling_joined /\ UNCHANGED notPl
    \/ \E n \in Triggers : Polling_due(n) /\ UNCHANGED notPl
    \/ \E t \in PollingLoops : Polling_test(t) /\ UNCHANGED notPl
    \/ \E t \in PollingLoops : Polling_run_pending(t) /\ UNCHANGED notPl
    \/ \E t \in PollingLoops : Polling_callbackStart(t) /\ UNCHANGED notPl
    \/ \E t \in PollingLoops : Polling_callbackEnd(t) /\ UNCHANGED notPl
    \/ \E t \in PollingLoops : Polling_sleep(t) /\ UNCHANGED notPl

SpecPolling == InitPolling /\ [][NextPolling]_vars

(***************************************************************************)
(* Claims about the Analysis Worker (SpecWorker)                           *)
(***************************************************************************)
\* artifact ids are handed out in add_to_queue order, so a sequence of ids
\* keeps that order exactly when it is increasing
InEnqueueOrder(s) == \A i, j \in 1..Len(s) : i < j => s[i] < s[j]

\* a stop() has returned (the last one called)
StopReturned == wk_stop = "idle" /\ wk_stopAt > 0

\* C1: FIFO processing: artifacts are handed to the analysis call in the
\* order they were passed to add_to_queue, and the entries of the aggregate
\* file are in that order too.
C1_Fifo == InEnqueueOrder(wk_analysed) /\ InEnqueueOrder(wk_file)

\* C1 witness: two artifacts that waited in the queue together both have
\* their entry in the aggregate file.
C1_Witness == Len(wk_file) >= 2 /\ Len(wk_analysed) >= 3

\* C2: failure isolation: an artifact whose iteration raised (or whose save
\* failed) has no entry, every other finished artifact has one, and a failure
\* never ends the loop: the thread leaves the loop only after stop(), with
\* every artifact enqueued before that processed.
C2_FailureIsolation ==
    /\ \A id \in wk_failed : id \notin Range(wk_file)
    /\ \A id \in wk_done : (id \in Range(wk_file)) <=> (id \notin wk_failed)
    /\ wk_thread = "exited" =>
         /\ wk_stopAt > 0
         /\ \A id \in 1..(wk_exitAt - 1) : id \in wk_done

\* C2 witness: an artifact enqueued after a failing one got its entry, and
\* the failing one has none.
C2_Witness ==
    \E f \in wk_failed : \E g \in Range(wk_file) :
        f < g /\ f \in Range(wk_analysed) /\ f \notin Range(wk_file)

C4_NothingAfterStopCalled ==
    \A id \in 1..MaxArtifacts :
        (wk_stopAt > 0 /\ id >= wk_stopAt) =>
            id \notin Range(wk_analysed) /\ id \notin Range(wk_file)

\* C4 amended: an artifact passed to add_to_queue after a stop() has returned
\* from a join that did not time out is never dequeued, analysed or entered.
C4_NothingAfterStopJoined ==
    \A id \in 1..MaxArtifacts :
        (wk_retAt > 0 /\ id >= wk_retAt) =>
            /\ id \notin Range(wk_analysed)
            /\ id \notin Range(wk_file)
            /\ id \notin wk_done

\* C4 witness: an artifact arrived after such a return and sits in the queue.
C4_Witness ==
    /\ wk_retAt > 0
    /\ \E i \in 1..Len(wk_queue) : wk_queue[i] >= wk_retAt

(***************************************************************************)
(* Claims about the Task Scheduler (SpecSched)                             *)
(***************************************************************************)
\* the clock tick at which trigger n is due on day d
TriggerTick(n, d) == d * TicksPerDay + AtTime(n)

\* the polling loop has crossed trigger n's time on day d: the jobs were
\* registered before it, the poll at that tick is done, stop() not called
Crossed(n, d) ==
    /\ sch_startAt >= 0
    /\ ~sch_stopped
    /\ sch_startAt < TriggerTick(n, d)
    /\ sch_now > TriggerTick(n, d)

\* C5: once per day: a trigger's callback is invoked at most once on any
\* day, never before its time of day, and exactly once on a day on which the
\* polling loop has crossed its time.
C5_OncePerDay ==
    \A n \in Triggers : \A d \in Days :
        /\ sch_fired[n][d] <= 1
        /\ sch_fired[n][d] > 0 => sch_now >= TriggerTick(n, d)
        /\ Crossed(n, d) => sch_fired[n][d] = 1

\* C5 witness: the summary trigger has fired once on each of two days and
\* the loop has polled again after the second firing.
C5_Witness ==
    /\ sch_fired["summary"][0] = 1
    /\ sch_fired["summary"][1] = 1
    /\ Crossed("summary", 1)
    /\ sch_now > TriggerTick("summary", 1) + 1
    /\ sch_thread = "sleep"

(***************************************************************************)
(* Claims about the Capture Producers (SpecProducer)                       *)
(***************************************************************************)
\* C6: start() on a Producer that is already running creates nothing: until
\* stop() is called the Producer has created one thread and one listener at
\* most, so one cadence loop is active and no tick is served twice.
C6_StartTwice ==
    ~pr_stopped =>
        /\ Cardinality(Spawned) <= 1
        /\ Cardinality(LiveLoops) <= 1
        /\ pr_listeners <= 1

\* C6 witness: start() has been called on the running Producer, whose one
\* loop has handed over an artifact since.
C6_Witness ==
    /\ pr_again /\ ~pr_stopped /\ pr_running
    /\ Cardinality(LiveLoops) = 1
    /\ pr_enq >= 1

\* C8 as stated: from the return of pause() until resume() the callback is
\* never invoked.
C8_NothingWhilePaused == \A t \in 0..MaxLoops : pr_inPause[t] = 0

\* C8 amended: after pause() has returned, a cadence loop completes at most
\* the one capture whose flag test came before the pause, and the keyboard
\* listener at most the one keystroke already past its test; ScreenCapture's
\* stop() hands over nothing; only KeyboardRecorder.stop() still flushes the
\* buffer to on_log_ready while paused.
C8_OnlyInFlightWhilePaused ==
    /\ \A t \in Loops : pr_inPause[t] <= 1
    /\ pr_keysInPause <= 1
    /\ pr_kind = "screen" => pr_inPause[Caller] = 0

\* C8 witness: a paused Producer whose loop has completed its in-flight
\* capture and then gone round its loop again without capturing.
C8_Witness ==
    /\ pr_paused
    /\ \E t \in Loops : pr_inPause[t] = 1 /\ pr_pc[t] \in {"flag", "check"}
    /\ pr_enq < MaxCaptures

(***************************************************************************)
(* Claims about the Orchestrator (SpecAssistant)                           *)
(***************************************************************************)
\* the position of component c in the start log (0: not started)
StartedAt(kind, stream) ==
    LET at == {i \in 1..Len(as_startLog) :
                  as_startLog[i].kind = kind /\ as_startLog[i].stream = stream}
    IN IF at = {} THEN 0 ELSE CHOOSE i \in at : \A j \in at : i <= j

\* no power handler is part of the way through the Producers
NoHandlerRunning == as_ev = "idle"

C9_PauseLeavesWorkers ==
    [][ /\ (as_ev # "idle" /\ (as_ev' # as_ev \/ as_evI' # as_evI)) =>
              (as_work' = as_work /\ as_queue' = as_queue)
        /\ \A s \in Streams :
              \A id \in Range(as_queue[s]) \ Range(as_queue'[s]) :
                  id \in Range(as_processed'[s]) ]_vars

\* C9 witness: artifacts that sat in a queue when its Producer was paused
\* have all been processed by the Worker while the Producer stayed paused.
C9_Witness ==
    \E s \in Streams :
        /\ as_prod[s].paused
        /\ as_pausedWith[s] # {}
        /\ as_pausedWith[s] \subseteq Range(as_processed[s])
        /\ as_work[s].running

\* C10: startup order: a stream's Producer is started only after its Worker,
\* the Scheduler only after every enabled Worker and Producer, and the
\* Event Source only after the Scheduler.
C10_StartupOrder ==
    /\ \A s \in Streams :
          /\ StartedAt("producer", s) > 0 =>
                /\ StartedAt("worker", s) > 0
                /\ StartedAt("worker", s) < StartedAt("producer", s)
          /\ (as_prod[s].running /\ as_pc \in {"starting", "running"}) =>
                as_work[s].running
    /\ StartedAt("scheduler", "none") > 0 =>
          \A s \in as_enabled :
              /\ StartedAt("worker", s) > 0
              /\ StartedAt("producer", s) > 0
              /\ StartedAt("producer", s) < StartedAt("scheduler", "none")
    /\ StartedAt("power_monitor", "none") > 0 =>
          /\ StartedAt("scheduler", "none") > 0
          /\ StartedAt("scheduler", "none") < StartedAt("power_monitor", "none")
    /\ as_sched => StartedAt("scheduler", "none") > 0
    /\ as_pm => StartedAt("power_monitor", "none") > 0

\* C10 witness: a run with all three streams enabled has started all eight
\* components.
C10_Witness ==
    /\ as_enabled = Streams
    /\ as_pc = "running"
    /\ Len(as_startLog) = 8
    /\ as_pm /\ as_sched

(***************************************************************************)
(* Claims about one stream under the Assistant (SpecStream)                *)
(***************************************************************************)
\* C11: no artifact is enqueued while no consumer exists: whenever a
\* Producer's callback puts an artifact into the stream's queue, the
\* stream's Worker has been started and its stop() has not been called.
C11_EnqueueOnlyWithConsumer == ~st_late

\* C11, keyboard stream alone: the same for KeyboardRecorder, whose stop()
\* joins nothing.
C11_KeyboardEnqueueOnlyWithConsumer == pr_kind = "keyboard" => ~st_late

(***************************************************************************)
(* Claims about the Orchestrator's shutdown (SpecAssistant)                *)
(***************************************************************************)
\* the position of a component in the stop log (0: not stopped)
StoppedAt(kind, stream) ==
    LET at == {i \in 1..Len(as_stopLog) :
                  as_stopLog[i].kind = kind /\ as_stopLog[i].stream = stream}
    IN IF at = {} THEN 0 ELSE CHOOSE i \in at : \A j \in at : i <= j

C20_LockPauseConfigurable ==
    /\ [](~as_pause_on_lock =>
            /\ as_ev \notin {"on_lock", "on_unlock"}
            /\ as_last \notin {"on_lock", "on_unlock"}
            /\ \A s \in Streams :
                   as_prod[s].paused =>
                       as_last = "on_sleep" \/ as_ev = "on_sleep")
    /\ []((NoHandlerRunning /\ as_last = "on_sleep") =>
            \A s \in as_enabled : as_prod[s].paused)
    /\ []((NoHandlerRunning /\ as_last = "on_wake") =>
            \A s \in as_enabled : ~as_prod[s].paused)
    /\ [](as_pause_on_lock =>
            /\ ~as_lockIgnored
            /\ (NoHandlerRunning /\ as_last = "on_lock") =>
                   \A s \in as_enabled : as_prod[s].paused
            /\ (NoHandlerRunning /\ as_last = "on_unlock") =>
                   \A s \in as_enabled : ~as_prod[s].paused)
    /\ [][as_lockIgnored' # as_lockIgnored =>
            (as_prod' = as_prod /\ as_ev' = as_ev)]_vars

\* C20 witness: with pause_on_lock off a Lock or Unlock message has been
\* dropped while the Producers of two streams stayed unpaused, and Sleep has
\* then paused them.
C20_Witness ==
    /\ ~as_pause_on_lock
    /\ as_lockIgnored
    /\ Cardinality(as_enabled) = 2
    /\ NoHandlerRunning /\ as_last = "on_sleep"
    /\ \A s \in as_enabled : as_prod[s].running /\ as_prod[s].paused

(***************************************************************************)
(* Claims about repeated start() and stop() of the Assistant (SpecApi)     *)
(***************************************************************************)
\* C13: orchestrator start idempotency: Assistant.start() called while the
\* system is Running is a no-op: it constructs no new component and starts
\* no additional thread.
C13_StartWhileRunningNoOp ==
    /\ ap_setups <= 1
    /\ \A s \in Streams : ap_loops[s] <= 1 /\ ap_workers[s] <= 1

\* C14: orchestrator stop idempotency: Assistant.stop() called while the
\* system is Stopped, never started or already stopped, is a no-op: it
\* raises no error, enqueues nothing and changes no component state.
C14_StopWhileStoppedNoOp ==
    /\ ~ap_raised
    /\ ap_snap # <<>> => Components = ap_snap

(***************************************************************************)
(* Further claims about the Analysis Worker (SpecWorker)                   *)
(***************************************************************************)
\* no element occurs twice in the sequence
NoRepeat(s) == \A i, j \in 1..Len(s) : i # j => s[i] # s[j]

\* C15: at-most-once delivery: an artifact put into the queue is dequeued at
\* most once and has at most one entry in the aggregate file; an artifact
\* whose analysis failed is not put back in the queue and not processed
\* again.
C15_AtMostOnce ==
    /\ NoRepeat(wk_queue)
    /\ NoRepeat(wk_analysed)
    /\ NoRepeat(wk_file)
    /\ \A id \in wk_done \cup wk_failed \cup Range(wk_analysed) :
           id \notin Range(wk_queue)
    /\ wk_item # 0 => wk_item \notin Range(wk_queue)
    /\ \A id \in wk_failed : id \notin Range(wk_file)

\* C15 witness: the analysis of one artifact has failed, the Worker has gone
\* on to analyse and record a later one, and the queue is empty again.
C15_Witness ==
    /\ wk_queue = <<>>
    /\ wk_thread = "get"
    /\ Len(wk_analysed) >= 2
    /\ \E a \in wk_failed, b \in Range(wk_file) :
          /\ a < b
          /\ a \in Range(wk_analysed)
          /\ a \notin Range(wk_file)

(***************************************************************************)
(* Claims about a Worker started and stopped repeatedly (SpecWorkers)      *)
(***************************************************************************)
\* C16: single consumer per stream: after any sequence of start() and stop()
\* calls on a Worker at most one worker thread is consuming its queue, and
\* no two artifacts of the stream are being analysed at the same time.
C16_SingleConsumer ==
    /\ Cardinality(Consumers) <= 1
    /\ Cardinality({t \in Threads : rw_pc[t] = "analyze"}) <= 1

(***************************************************************************)
(* Claims about a Producer started and stopped repeatedly (SpecProducers)  *)
(***************************************************************************)
\* C17: no transition out of Stopping except to Stopped: a Producer whose
\* stop() has been called does not become Running again while its cadence
\* loop is alive; a start() after stop() returned on its join timeout leaves
\* neither the old loop resumed nor two cadence loops running.
C17_StoppingOnlyToStopped == Cardinality(LiveLoops) <= 1

\* C17, the old loop resumed: no two cadence loops are past their running
\* test and about to capture at the same time.
C17_NoTwoLoopsCapturing ==
    Cardinality({t \in Loops : pr_pc[t] \in {"flag", "capture", "take"}}) <= 1

\* ---------------------------------------------------------------------
\* Claims: listeners of the PowerMonitor
\* ---------------------------------------------------------------------

\* C18: when several callbacks are registered for the same power event,
\* dispatching that event invokes every one of them, in registration
\* order: the listeners a handled message invoked are exactly those
\* registered for its event at that moment, in the order of registration.
C18_EveryListenerInOrder == pm_invoked = pm_expected

\* the same for an event with a single registration, which the code meets
C18_SingleListenerInvoked == Len(pm_expected) = 1 => pm_invoked = pm_expected

\* C19: an exception raised by a listener is caught and logged inside the
\* PowerMonitor: every raise is logged, none ends the message loop, and
\* while the monitor is running its loop stays alive to dispatch later
\* events.
C19_ListenerExceptionIsolated ==
    /\ pm_logged = pm_raises
    /\ pm_thread # "dead"
    /\ (pm_is_running => pm_thread = "loop")

\* a listener raised, and a later message still reached its listener
C19_Witness == pm_raises > 0 /\ pm_afterRaise /\ pm_is_running

\* ---------------------------------------------------------------------
\* Claims: the TaskScheduler's callbacks (SpecTriggers, SpecSched)
\* ---------------------------------------------------------------------

\* C21: a scheduler callback that raises is caught and logged and never
\* stops the polling loop: every raise is logged, the polling thread of a
\* running scheduler is alive, and when a callback has raised on some day,
\* every trigger whose time the loop crosses on that day or a later one
\* (the other trigger, the same trigger on the next day) has fired that day.
C21_CallbackErrorIsolated ==
    /\ tg_logged = tg_raised
    /\ (sch_is_running => sch_thread \in {"check", "pending", "sleep"})
    /\ \A m \in Triggers : \A e \in tg_raised[m] :
           \A n \in Triggers : \A d \in Days :
               (d >= e /\ Crossed(n, d)) => sch_fired[n][d] = 1

\* the summary callback raised on day 0; the cleanup trigger fired on day 1
\* and the summary trigger fired again on day 1
C21_Witness ==
    /\ 0 \in tg_raised["summary"]
    /\ sch_fired["cleanup"][1] = 1
    /\ sch_fired["summary"][1] = 1
    /\ sch_is_running

\* C22: a trigger fires on the first poll tick at or after its time of day
\* on any day on which it has not yet fired: once a running scheduler has
\* polled at or after trigger n's time on day d, n has fired on day d,
\* also when the scheduler was started on day d after that time.
C22_FiresAtOrAfterTime ==
    \A n \in Triggers : \A d \in Days :
        ( /\ sch_startAt >= 0
          /\ ~sch_stopped
          /\ DayOf(sch_startAt) <= d
          /\ sch_now > TriggerTick(n, d)
          /\ sch_now > sch_startAt
          /\ DayOf(sch_now) = d )
            => sch_fired[n][d] = 1

\* the part of C22 the code meets: a scheduler started before the trigger's
\* time fires it on the poll at that time
C22_FiresWhenStartedBefore ==
    \A n \in Triggers : \A d \in Days :
        Crossed(n, d) => sch_fired[n][d] = 1

\* C23: run_now bypasses the time check: a run_now call with the task name
\* of a trigger invokes the callback registered for that trigger once, in
\* the call itself, and invokes no other callback; it does so at any time
\* of day and whether or not the scheduler is running.
C23_RunNowInvokesOnce ==
    [][tg_calls' # tg_calls =>
          \A n \in Triggers :
              tg_manual'[n] = tg_manual[n] +
                  (IF tg_task' = n /\ CallbackOf(n) \in tg_callbacks
                   THEN 1 ELSE 0)]_vars

\* run_now('summary') has invoked the registered summary callback while the
\* scheduler was not running and the summary time was still ahead
C23_Witness ==
    /\ tg_task = "summary"
    /\ tg_manual["summary"] = 1
    /\ ~sch_is_running
    /\ sch_thread = "none"
    /\ TimeOf(sch_now) < AtTime("summary")

\* ---------------------------------------------------------------------
\* Claims: the daily-summary callback (SpecSummary)
\* ---------------------------------------------------------------------

\* the times the summary trigger has fired on days 0..d
RECURSIVE FiredUpTo(_)
FiredUpTo(d) ==
    IF d < 0 THEN 0 ELSE sch_fired["summary"][d] + FiredUpTo(d - 1)

\* the times the summary trigger has fired, over all days
SummaryFired == FiredUpTo(MaxDays)

\* C24: on each daily-summary trigger the Assistant invokes the aggregation
\* collaborator exactly once, and any error is caught and logged: generate()
\* has been called once per firing of the trigger, every exception raised
\* inside the handler has been logged, none has left the handler, and the
\* polling thread of the running scheduler is alive afterwards.
C24_SummaryErrorContained ==
    /\ sm_generated = sm_triggers
    /\ sm_triggers = SummaryFired
    /\ sm_logged = sm_raised
    /\ ~sm_escaped
    /\ (sch_is_running => sch_thread \in {"check", "pending", "sleep"})

\* the summary of day 0 failed and was logged; the scheduler polled on and
\* the summary of day 1 was generated
C24_Witness ==
    /\ sm_raised = 1
    /\ sm_logged = 1
    /\ sch_fired["summary"][0] = 1
    /\ sch_fired["summary"][1] = 1
    /\ sm_generated = 2
    /\ sch_is_running

(***************************************************************************)
(* Claims about failing captures and the keystroke buffer (SpecCapture)    *)
(***************************************************************************)
\* C25: a capture failure never terminates the Producer: every exception
\* raised by a capture, a write or the enqueue callback inside the cadence
\* loop is logged, and a cadence-loop thread has left its loop only when
\* stop() has cleared the running flag.
C25_CaptureFailureContained ==
    /\ cf_logged = cf_failed
    /\ \A t \in Loops : pr_pc[t] = "exited" => (pr_stopped /\ ~pr_running)

\* a cadence loop has failed once, gone on, and handed over an artifact on
\* a later tick, the Producer still running
C25_Witness ==
    /\ cf_recovered \cap Loops # {}
    /\ pr_running
    /\ ~pr_stopped

\* the keystrokes save_buffer holds in a local between the buffer and the
\* file, over all threads
InFlush == UNION {Range(pr_seg[t]) : t \in 0..MaxLoops}

\* stop() of the KeyboardRecorder has been called and has returned
RecorderStopReturned ==
    pr_kind = "keyboard" /\ pr_stopped /\ pr_pc[Caller] = "idle"

\* C26: synchronous flush on stop: when KeyboardRecorder.stop() has
\* returned, and no write has failed, every keystroke that was in the
\* buffer before stop() was called is in the day log and has been handed to
\* on_log_ready, and the buffer is empty.
C26_FlushedOnStop ==
    (RecorderStopReturned /\ cf_failed = {}) =>
        /\ \A k \in 1..MaxKeys :
               (k \in Range(cf_taken) \/ k \in Range(cf_atStop))
                   => k \in Range(pr_log)
        /\ pr_buffer = <<>>

\* what holds when stop() has returned: a keystroke that was in the buffer
\* when stop() was called has left it, and is in the day log or in the
\* hands of a flush that has not finished, unless a write failed
C26_BufferAtStopTaken ==
    RecorderStopReturned =>
        \A k \in Range(cf_atStop) :
            /\ k \notin Range(pr_buffer)
            /\ (cf_failed = {} => k \in Range(pr_log) \cup InFlush)

WorkerDeleted == {id \in 1..MaxArtifacts : id < wk_next /\ id \notin wk_disk}

\* C28: a source artifact is deleted by the Worker only after successful
\* analysis: an artifact the Worker has deleted is a screenshot whose
\* analysis call returned and whose result entry is in the aggregate file;
\* audio and keyboard artifacts are never deleted.
C28_DeletedOnlyAfterSaved ==
    \A id \in WorkerDeleted :
        /\ wk_kind = "screen"
        /\ id \in Range(wk_analysed)
        /\ id \in Range(wk_file)

\* the part of C28 the code meets: only a ScreenAnalyzer without screenshot
\* backup deletes, and only an artifact whose analysis call was made and
\* did not raise; the entry may be missing when the append failed
C28_DeletedOnlyAfterAnalysis ==
    \A id \in WorkerDeleted :
        /\ wk_kind = "screen"
        /\ ~wk_backup
        /\ id \in Range(wk_analysed)
        /\ (id \in wk_failed => id \notin Range(wk_file))

\* how many of the Worker's reads held artifact id
RECURSIVE TimesRead(_, _)
TimesRead(id, n) ==
    IF n = 0 THEN 0
    ELSE (IF id \in Range(ar_reads[n].read) THEN 1 ELSE 0)
             + TimesRead(id, n - 1)

\* C29: artifacts are immutable once created: what the Worker reads for a
\* dequeued artifact is what the Producer had written when it enqueued the
\* reference, and no artifact (keystroke segment) is read for analysis more
\* than once.
C29_ArtifactImmutable ==
    /\ \A n \in 1..Len(ar_reads) : ar_reads[n].read = ar_reads[n].wrote
    /\ \A id \in ArtifactIds : TimesRead(id, Len(ar_reads)) <= 1

\* the part of C29 the code meets: a screenshot is read as it was written,
\* and once
C29_ScreenshotImmutable ==
    ar_kind = "screen" =>
        /\ \A n \in 1..Len(ar_reads) : ar_reads[n].read = ar_reads[n].wrote
        /\ \A id \in ArtifactIds : TimesRead(id, Len(ar_reads)) <= 1

\* C30: day partitioning by capture day: the result of an artifact is in
\* the aggregate file of the day the artifact was captured on.
C30_ResultInCaptureDay ==
    \A d \in ArtifactDays : \A id \in Range(ar_results[d]) : ar_dayKey[id] = d

\* the part of C30 the code meets: the result is in the aggregate file of
\* the capture day or of a later day, never of an earlier one
C30_ResultNotBeforeCaptureDay ==
    \A d \in ArtifactDays : \A id \in Range(ar_results[d]) : ar_dayKey[id] <= d

(***************************************************************************)
(* Claims about shutdown (SpecShutdown)                                    *)
(***************************************************************************)
\* C31: Shutdown always terminates: once Assistant.stop() has been entered
\* it returns, also when threads are blocked or asleep; a component whose
\* thread has not ended when its join times out is left behind, and the
\* stop() of every built component has been called by the time stop()
\* returns.
C31_ShutdownTerminates ==
    /\ [](sd_phase = "returned" =>
            \A i \in StopPositions :
              ShutdownBuilt(i, sd_enabled) => i \in sd_called /\ ~sd_flag[i])
    /\ (sd_phase = "stopping") ~> (sd_phase = "returned")

\* stop() has returned having left a Worker behind whose thread had not
\* ended when the join timed out, and the components after it were stopped
C31_Witness ==
    /\ sd_phase = "returned"
    /\ \E i \in sd_abandoned :
         /\ sd_thread[i] = "left"
         /\ StopOrder[i].kind = "worker"
         /\ \E j \in sd_called : j > i

(***************************************************************************)
(* Claims about the deny-list of ScreenCapture (SpecPrivacy)               *)
(***************************************************************************)
\* C32: The deny-list is checked on every pass of the capture loop: a pass
\* whose check read a title that contains a deny-listed app or window name
\* never reaches the grab, so no screenshot is saved and nothing is handed
\* over in it, whatever the title was when start() was called.
C32_DenyListEveryTick ==
    /\ ~pv_leak
    /\ \A t \in Loops : pr_pc[t] = "capture" => ~pv_seenDenied[t]

\* the window active at start() was not on the deny-list and a screenshot
\* was handed over; later a pass found a deny-listed title and was skipped
C32_Witness ==
    /\ ~pv_startDenied
    /\ pr_enq > 0
    /\ pv_skipped
    /\ \E t \in Loops : pr_pc[t] = "sleep" /\ pv_seenDenied[t] /\ ~pr_paused

C34_WorkerTerminates ==
    /\ [][wk_thread' = "exited" /\ wk_thread # "exited"
            => wk_queue = <<>> /\ ~wk_is_running]_vars
    /\ (wk_stopAt > 0 /\ ~wk_is_running /\ WorkerAlive) ~> (wk_thread = "exited")

\* the thread has ended after a stop() that found artifacts in the queue,
\* all of which it has dealt with
C34_Witness ==
    /\ wk_thread = "exited"
    /\ wk_stopAt > 0
    /\ wk_stopSnap # {}
    /\ wk_stopSnap \subseteq wk_done
    /\ wk_queue = <<>>

(***************************************************************************)
(* Claims about overlapping pause reasons (SpecOverlap)                    *)
(***************************************************************************)
\* the Producers of the streams whose code is followed here
OverlapProducers == {s \in {"screen", "keyboard"} : as_prod[s].built}

\* C35: Overlapping pause reasons: with pause_on_lock, from the return of
\* _on_lock until the next Unlock message every enabled Producer is paused
\* whenever no handler is part of the way through, whatever Sleep and Wake
\* messages were handled in between; and the same between _on_sleep and
\* the next Wake message, whatever Lock and Unlock messages arrived.
C35_PausedUntilMatchingResume ==
    (as_pause_on_lock /\ as_ev = "idle" /\ (ov_lockHandled \/ ov_sleepHandled))
      => \A s \in OverlapProducers : as_prod[s].paused

\* with one reason only, the flag is right: a Producer is paused from the
\* return of _on_lock to the next Unlock message when the machine has not
\* been suspended in between, and from _on_sleep to the next Wake message
\* when the session is not locked
C35_PausedWithOneReason ==
    /\ (as_ev = "idle" /\ ov_sleepHandled /\ ~ov_locked /\ ~ov_lockHandled
          /\ as_last = "on_sleep")
         => \A s \in OverlapProducers : as_prod[s].paused
    /\ (as_ev = "idle" /\ ov_lockHandled /\ ~ov_asleep /\ ~ov_sleepHandled
          /\ as_last = "on_lock")
         => \A s \in OverlapProducers : as_prod[s].paused

(***************************************************************************)
(* Claims about a Producer after stop() (SpecAfterStop)                    *)
(***************************************************************************)
\* C36: After a Producer's stop() has returned, the Producer writes no
\* artifact and invokes its callback no more: the day log and the number
\* of callback invocations stay what they were when stop() returned.
C36_QuietAfterStop ==
    af_returned => pr_enq = af_enq /\ Len(pr_log) = af_log

\* C36 for the KeyboardRecorder alone
C36_KeyboardQuietAfterStop ==
    (pr_kind = "keyboard" /\ af_returned)
      => pr_enq = af_enq /\ Len(pr_log) = af_log

\* C36 for the ScreenCapture alone
C36_ScreenQuietAfterStop ==
    (pr_kind = "screen" /\ af_returned) => pr_enq = af_enq

(***************************************************************************)
(* Claims about the order of the day log (SpecCapture)                     *)
(***************************************************************************)
\* the place of keystroke k in the order in which save_buffer calls took
\* keystrokes out of the buffer
TakePos(k) == CHOOSE i \in 1..Len(cf_taken) : cf_taken[i] = k

\* the day log holds its keystrokes in the order they were taken
LogInTakeOrder ==
    \A i, j \in 1..Len(pr_log) :
      (i < j /\ pr_log[i] \in Range(cf_taken) /\ pr_log[j] \in Range(cf_taken))
        => TakePos(pr_log[i]) < TakePos(pr_log[j])

\* C37: Keystroke segments reach the day log in the order they were taken
\* out of the buffer: a segment taken by one save_buffer call before
\* another call took its segment is in keylog.txt before that one.
C37_LogInTakeOrder == pr_kind = "keyboard" => LogInTakeOrder

\* while stop() has not been called only the _save_loop thread calls
\* save_buffer, and the day log is in the order of the takes
C37_LogInTakeOrderBeforeStop ==
    (pr_kind = "keyboard" /\ ~pr_stopped) => LogInTakeOrder

(***************************************************************************)
(* Claims about the running flag and the loop thread (SpecInitFail)        *)
(***************************************************************************)
\* C38: The running flag matches a live loop: a ScreenCapture whose
\* is_running is true has a live capture thread and a ScreenAnalyzer whose
\* _is_running is true has a live worker thread, also after the thread's
\* own initialisation has raised; and no start() returns early on the flag
\* while there is no loop.
C38_FlagMatchesLoop ==
    /\ pr_running => LiveLoops # {}
    /\ wk_is_running => WorkerAlive
    /\ if_refused = {}

\* the flag and the thread agree for a component whose loop thread did not
\* end in its initialisation
C38_FlagMatchesLoopInitialised ==
    /\ (pr_running /\ "producer" \notin if_failed) => LiveLoops # {}
    /\ (wk_is_running /\ "worker" \notin if_failed) => WorkerAlive
    /\ if_refused \subseteq if_failed

(***************************************************************************)
(* Claims about the polling loop of the TaskScheduler (SpecPolling)        *)
(***************************************************************************)
\* C39: Single polling loop: after any sequence of start() and stop()
\* calls at most one polling-loop thread is live and each trigger has at
\* most one registered job, also after a stop() that returned on its join
\* timeout; and no callback is started once stop() has returned.
C39_SinglePollingLoop ==
    /\ Cardinality(PollingLive) <= 1
    /\ \A n \in Triggers : pl_jobs[n] <= 1
    /\ ~pl_late

\* each trigger has at most one registered job
C39_OneJobPerTrigger == \A n \in Triggers : pl_jobs[n] <= 1

\* while no join of stop() has timed out there is at most one live
\* polling-loop thread and no callback is started after stop() returned
C39_SingleLoopWithoutTimeout ==
    ~pl_timedOut => Cardinality(PollingLive) <= 1 /\ ~pl_late

\* no callback is started once stop() has returned
C39_NoCallbackAfterStop == ~pl_late

\* at most one polling-loop thread is live
C39_OneLiveLoop == Cardinality(PollingLive) <= 1

====
